---- MODULE Spec2Model ----
(***************************************************************************)
(* Farm record-keeping backend: the expense and egg-sale tables and the    *)
(* income-statement aggregation (modules/income/reportsService.ts, both    *)
(* the month-token and the date-range variant of the service).             *)
(*                                                                         *)
(* Money is modelled in whole units (integers), dates as half-day ticks.   *)
(***************************************************************************)
EXTENDS Integers, Sequences, FiniteSets, TLC

\* ---------------------------------------------------------------- bounds
\* Largest number of write operations (create/update/delete) in a behaviour.
MaxWrites == 2
\* Largest amount of money a request body carries; the smallest is 1.
MaxAmount == 2

\* ------------------------------------------------------- JS value model
\* `undefined` for an optional string (query parameter, body field).
Undefined == "<undefined>"
\* SQL NULL in an optional string column.
NullStr == "<null>"
\* A nullable number is <<>> (null) or <<n>>.
NullNum == <<>>
Num(n) == <<n>>

\* JS truthiness of an optional string: undefined and "" are falsy.
Truthy(s) == s # Undefined /\ s # ""

\* x ?? d on a nullable number.
Coalesce(x, d) == IF x = NullNum THEN d ELSE x[1]

\* ------------------------------------------------------ program constants
EXPENSE_HEADS ==
  << "CHICKEN", "FEED", "RENT", "UTILITIES", "PACKING_MATERIAL", "TP",
     "SALARIES_PAYMENTS", "MESS", "POWER_ELECTRIC", "POL", "MEDICINE",
     "VACCINE", "REPAIR_MAINTENANCE", "TRAVELLING_LOGISTICS",
     "OFFICE_EXPENSES", "MEETING_REFRESHMENT", "FURNITURE_FIXTURE",
     "COMPUTER_DEVICES", "PROFESSIONAL_FEE", "MISCELLANEOUS",
     "SHAREHOLDERS_DIVIDEND", "OTHER" >>

cogsHeads == << "CHICKEN", "FEED", "MEDICINE", "VACCINE" >>

\* Mutant: the OpEx query also asks for the head TP.
opExHeadsWithTP ==
  << "RENT", "UTILITIES", "SALARIES_PAYMENTS", "MESS", "POWER_ELECTRIC",
     "POL", "PACKING_MATERIAL", "REPAIR_MAINTENANCE", "OFFICE_EXPENSES",
     "MEETING_REFRESHMENT", "TRAVELLING_LOGISTICS", "MISCELLANEOUS", "TP" >>

\* Mutant: the OpEx query also asks for the COGS head FEED.
opExHeadsWithFeed ==
  << "RENT", "UTILITIES", "SALARIES_PAYMENTS", "MESS", "POWER_ELECTRIC",
     "POL", "PACKING_MATERIAL", "REPAIR_MAINTENANCE", "OFFICE_EXPENSES",
     "MEETING_REFRESHMENT", "TRAVELLING_LOGISTICS", "MISCELLANEOUS", "FEED" >>

opExHeads ==
  << "RENT", "UTILITIES", "SALARIES_PAYMENTS", "MESS", "POWER_ELECTRIC",
     "POL", "PACKING_MATERIAL", "REPAIR_MAINTENANCE", "OFFICE_EXPENSES",
     "MEETING_REFRESHMENT", "TRAVELLING_LOGISTICS", "MISCELLANEOUS" >>

Range(s) == { s[i] : i \in 1..Len(s) }

\* new Date(s) for the date strings of the model, in half-day ticks since
\* 2026-01-01T00:00Z (a date-only string is midnight UTC).
NewDate(s) ==
  CASE s = "2025-12-31" -> 0 - 2
    [] s = "2026-01-01" -> 0
    [] s = "2026-01-31" -> 60
    [] s = "2026-01-31T12:00:00Z" -> 61
    [] s = "2026-02-01" -> 62

\* ------------------------------------------------------------ input sets
\* Amounts of money in request bodies: the smallest and the largest.
Amounts == { 1, MaxAmount }
\* The farm, month and date a modelled request body carries: a December
\* record of one farm and a later January record of another.
RowTags ==
  { [ farm |-> "MATITAL", month |-> "Dec", date |-> "2026-01-31" ],
    [ farm |-> "KAASI_19", month |-> "Jan", date |-> "2026-02-01" ] }
\* Heads the modelled requests carry: two COGS heads, two OpEx heads and one
\* head of the enumeration that is in neither list.
HeadInputs == { "CHICKEN", "FEED", "RENT", "MISCELLANEOUS", "TP" }

VARIABLES
  expense,        \* table Expense: id -> row
  eggSale,        \* table EggSale: id -> row
  nextExpenseId,  \* autoincrement of Expense.id
  nextEggSaleId,  \* autoincrement of EggSale.id
  writes,         \* number of write operations so far
  pc,             \* position of the getIncomeStatementService call
  variant,        \* which variant of the service is called
  input,          \* its IncomeStatementInput
  eggSales,       \* result of prisma.eggSale.aggregate
  cogsExpenses,   \* result of the COGS groupBy
  threw,          \* the query that threw, "" if none
  response,       \* the value the service returns
  http,           \* the last HTTP exchange: the request and its response
  user,           \* table User: id -> row
  feedPurchase,   \* table FeedPurchase: id -> row
  feedCall,       \* the createFeedPurchaseService calls in progress
  records,        \* per record type, the rows update and delete look up
  proc            \* the update and delete calls in progress

vars == << expense, eggSale, nextExpenseId, nextEggSaleId, writes,
           pc, variant, input, eggSales, cogsExpenses, threw, response,
           http, user, feedPurchase, feedCall, records, proc >>

\* The tables and calls outside the income statement.
aside == << user, feedPurchase, feedCall, records, proc >>

store == << expense, eggSale, nextExpenseId, nextEggSaleId, writes >>
call == << pc, variant, input, eggSales, cogsExpenses, threw, response >>

\* ------------------------------------------------------------ the filter
\* Mutant: the farm is never put into the where object.
whereNoFarm(in) ==
  [ month |-> IF Truthy(in.month) THEN in.month ELSE Undefined,
    farm  |-> Undefined ]

\* where of the month variant: keys are set only for truthy inputs.
where(in) ==
  [ month |-> IF Truthy(in.month) THEN in.month ELSE Undefined,
    farm  |-> IF Truthy(in.farm) THEN in.farm ELSE Undefined ]

commonWhere(in) ==
  [ farm |-> IF Truthy(in.farm) THEN in.farm ELSE Undefined ]

\* Mutant: the end date is never put into the filter.
dateFilterNoEnd(in) ==
  [ gte |-> IF Truthy(in.startDate) THEN Num(NewDate(in.startDate)) ELSE NullNum,
    lte |-> NullNum ]

\* The { gte, lte } object both date-range filters carry.
dateFilter(in) ==
  [ gte |-> IF Truthy(in.startDate) THEN Num(NewDate(in.startDate)) ELSE NullNum,
    lte |-> IF Truthy(in.endDate) THEN Num(NewDate(in.endDate)) ELSE NullNum ]

eggSaleWhere(in) ==
  IF Truthy(in.startDate) \/ Truthy(in.endDate)
    THEN [ farm |-> commonWhere(in).farm, saleDate |-> dateFilter(in) ]
    ELSE commonWhere(in)

expenseWhere(in) ==
  IF Truthy(in.startDate) \/ Truthy(in.endDate)
    THEN [ farm |-> commonWhere(in).farm, expenseDate |-> dateFilter(in) ]
    ELSE commonWhere(in)

\* The where objects the three queries of one call carry.
SaleWhereOf(v, in) == IF v = "month" THEN where(in) ELSE eggSaleWhere(in)
\* Mutant: the expense queries are restricted by the farm alone.
ExpenseWhereOfFarmOnly(v, in) == commonWhere(in)
ExpenseWhereOf(v, in) == IF v = "month" THEN where(in) ELSE expenseWhere(in)

\* { ...w, head: { in: heads } }
WithHeadIn(w, heads) == [ k \in DOMAIN w \cup {"head"} |->
                            IF k = "head" THEN [ in |-> heads ] ELSE w[k] ]

\* Prisma's { gte, lte } on a DateTime column: an absent bound restricts nothing.
InDateFilter(d, f) ==
  /\ (f.gte # NullNum => d >= f.gte[1])
  /\ (f.lte # NullNum => d <= f.lte[1])

\* Mutant: the month is compared without regard to case.
MatchesWhereAnyCase(row, w) ==
  LET fold(m) == IF m \in { "Dec", "dec", "DEC" } THEN "dec" ELSE m
  IN /\ ("month" \in DOMAIN w /\ w.month # Undefined)
          => fold(row.month) = fold(w.month)
     /\ ("farm" \in DOMAIN w /\ w.farm # Undefined) => row.farm = w.farm
     /\ "saleDate" \in DOMAIN w => InDateFilter(row.saleDate, w.saleDate)
     /\ "expenseDate" \in DOMAIN w => InDateFilter(row.expenseDate, w.expenseDate)
     /\ "head" \in DOMAIN w => row.head \in Range(w.head.in)

\* Prisma's where on one row: the conjunction of the keys that are set
\* (an undefined value is no condition; NULL equals no string).
MatchesWhere(row, w) ==
  /\ ("month" \in DOMAIN w /\ w.month # Undefined) => row.month = w.month
  /\ ("farm" \in DOMAIN w /\ w.farm # Undefined) => row.farm = w.farm
  /\ "saleDate" \in DOMAIN w => InDateFilter(row.saleDate, w.saleDate)
  /\ "expenseDate" \in DOMAIN w => InDateFilter(row.expenseDate, w.expenseDate)
  /\ "head" \in DOMAIN w => row.head \in Range(w.head.in)

\* ----------------------------------------------------------- the queries
RECURSIVE SumOver(_, _, _)
SumOver(table, ids, col) ==
  IF ids = {} THEN 0
  ELSE LET i == CHOOSE j \in ids : TRUE
       IN table[i][col] + SumOver(table, ids \ {i}, col)

\* Mutant: the query counts the matching rows instead of summing them.
EggSaleAggregateCount(table, w) ==
  LET ids == { i \in DOMAIN table : MatchesWhere(table[i], w) }
  IN [ _sum |-> [ amountReceived |->
         IF ids = {} THEN NullNum ELSE Num(Cardinality(ids)) ] ]

\* prisma.eggSale.aggregate({ where, _sum: { amountReceived: true } }):
\* the sum is null when no row matches.
EggSaleAggregate(table, w) ==
  LET ids == { i \in DOMAIN table : MatchesWhere(table[i], w) }
  IN [ _sum |-> [ amountReceived |->
         IF ids = {} THEN NullNum ELSE Num(SumOver(table, ids, "amountReceived")) ] ]

\* Mutant: the query reads a copy of the table that lacks its newest row.
ExpenseGroupByLagging(table, w, order) ==
  LET old == SubSeq(table, 1, Len(table) - 1)
      idsOf(h) == { i \in DOMAIN old :
                      old[i].head = h /\ MatchesWhere(old[i], w) }
      present == SelectSeq(order, LAMBDA h : idsOf(h) # {})
  IN [ k \in 1..Len(present) |->
         [ head |-> present[k],
           _sum |-> [ expenseCost |->
                        Num(SumOver(old, idsOf(present[k]), "expenseCost")) ] ] ]

\* prisma.expense.groupBy({ by: ["head"], where, _sum: { expenseCost: true } }):
\* one group per head that has a matching row, in the order of `order`.
ExpenseGroupBy(table, w, order) ==
  LET idsOf(h) == { i \in DOMAIN table :
                      table[i].head = h /\ MatchesWhere(table[i], w) }
      present == SelectSeq(order, LAMBDA h : idsOf(h) # {})
  IN [ k \in 1..Len(present) |->
         [ head |-> present[k],
           _sum |-> [ expenseCost |->
                        Num(SumOver(table, idsOf(present[k]), "expenseCost")) ] ] ]

Reverse(s) == [ k \in 1..Len(s) |-> s[Len(s) + 1 - k] ]
\* The orders in which the store may return the groups.
GroupOrders == { EXPENSE_HEADS, Reverse(EXPENSE_HEADS) }

\* ------------------------------------------------------------- the folds
cogsInit == [ chicken |-> 0, feed |-> 0, medicine |-> 0, vaccine |-> 0, total |-> 0 ]

\* Mutant: the MEDICINE and VACCINE cases assign each other's field.
CogsGroupSwapped(cogs, group) ==
  LET cost == Coalesce(group._sum.expenseCost, 0)
      c == CASE group.head = "CHICKEN"  -> [ cogs EXCEPT !.chicken = cost ]
             [] group.head = "FEED"     -> [ cogs EXCEPT !.feed = cost ]
             [] group.head = "MEDICINE" -> [ cogs EXCEPT !.vaccine = cost ]
             [] group.head = "VACCINE"  -> [ cogs EXCEPT !.medicine = cost ]
             [] OTHER -> cogs
  IN [ c EXCEPT !.total = @ + cost ]

\* Mutant: the switch has no case for FEED.
CogsGroupNoFeed(cogs, group) ==
  LET cost == Coalesce(group._sum.expenseCost, 0)
      c == CASE group.head = "CHICKEN"  -> [ cogs EXCEPT !.chicken = cost ]
             [] group.head = "MEDICINE" -> [ cogs EXCEPT !.medicine = cost ]
             [] group.head = "VACCINE"  -> [ cogs EXCEPT !.vaccine = cost ]
             [] OTHER -> cogs
  IN [ c EXCEPT !.total = @ + cost ]

\* Mutant: the total is the cost of the last group folded.
CogsGroupOverwrite(cogs, group) ==
  LET cost == Coalesce(group._sum.expenseCost, 0)
      c == CASE group.head = "CHICKEN"  -> [ cogs EXCEPT !.chicken = cost ]
             [] group.head = "FEED"     -> [ cogs EXCEPT !.feed = cost ]
             [] group.head = "MEDICINE" -> [ cogs EXCEPT !.medicine = cost ]
             [] group.head = "VACCINE"  -> [ cogs EXCEPT !.vaccine = cost ]
             [] OTHER -> cogs
  IN [ c EXCEPT !.total = cost ]

\* Body of cogsExpenses.forEach.
CogsGroup(cogs, group) ==
  LET cost == Coalesce(group._sum.expenseCost, 0)
      c == CASE group.head = "CHICKEN"  -> [ cogs EXCEPT !.chicken = cost ]
             [] group.head = "FEED"     -> [ cogs EXCEPT !.feed = cost ]
             [] group.head = "MEDICINE" -> [ cogs EXCEPT !.medicine = cost ]
             [] group.head = "VACCINE"  -> [ cogs EXCEPT !.vaccine = cost ]
             [] OTHER -> cogs
  IN [ c EXCEPT !.total = @ + cost ]

operatingExpensesInit ==
  [ rent |-> 0, utilities |-> 0, salariesPayments |-> 0, mess |-> 0,
    powerElectric |-> 0, pol |-> 0, packingMaterial |-> 0,
    repairMaintenance |-> 0, officeExpenses |-> 0, meetingRefreshment |-> 0,
    travellingLogistics |-> 0, miscellaneous |-> 0, total |-> 0 ]

\* Mutant: the total is overwritten by each group instead of accumulated.
OpExGroupOverwrite(opx, group) ==
  LET cost == Coalesce(group._sum.expenseCost, 0)
      o == CASE group.head = "RENT" -> [ opx EXCEPT !.rent = cost ]
             [] group.head = "UTILITIES" -> [ opx EXCEPT !.utilities = cost ]
             [] group.head = "SALARIES_PAYMENTS" -> [ opx EXCEPT !.salariesPayments = cost ]
             [] group.head = "MESS" -> [ opx EXCEPT !.mess = cost ]
             [] group.head = "POWER_ELECTRIC" -> [ opx EXCEPT !.powerElectric = cost ]
             [] group.head = "POL" -> [ opx EXCEPT !.pol = cost ]
             [] group.head = "PACKING_MATERIAL" -> [ opx EXCEPT !.packingMaterial = cost ]
             [] group.head = "REPAIR_MAINTENANCE" -> [ opx EXCEPT !.repairMaintenance = cost ]
             [] group.head = "OFFICE_EXPENSES" -> [ opx EXCEPT !.officeExpenses = cost ]
             [] group.head = "MEETING_REFRESHMENT" -> [ opx EXCEPT !.meetingRefreshment = cost ]
             [] group.head = "TRAVELLING_LOGISTICS" -> [ opx EXCEPT !.travellingLogistics = cost ]
             [] group.head = "MISCELLANEOUS" -> [ opx EXCEPT !.miscellaneous = cost ]
             [] OTHER -> opx
  IN [ o EXCEPT !.total = cost ]

\* Body of opExpenses.forEach.
OpExGroup(opx, group) ==
  LET cost == Coalesce(group._sum.expenseCost, 0)
      o == CASE group.head = "RENT" -> [ opx EXCEPT !.rent = cost ]
             [] group.head = "UTILITIES" -> [ opx EXCEPT !.utilities = cost ]
             [] group.head = "SALARIES_PAYMENTS" -> [ opx EXCEPT !.salariesPayments = cost ]
             [] group.head = "MESS" -> [ opx EXCEPT !.mess = cost ]
             [] group.head = "POWER_ELECTRIC" -> [ opx EXCEPT !.powerElectric = cost ]
             [] group.head = "POL" -> [ opx EXCEPT !.pol = cost ]
             [] group.head = "PACKING_MATERIAL" -> [ opx EXCEPT !.packingMaterial = cost ]
             [] group.head = "REPAIR_MAINTENANCE" -> [ opx EXCEPT !.repairMaintenance = cost ]
             [] group.head = "OFFICE_EXPENSES" -> [ opx EXCEPT !.officeExpenses = cost ]
             [] group.head = "MEETING_REFRESHMENT" -> [ opx EXCEPT !.meetingRefreshment = cost ]
             [] group.head = "TRAVELLING_LOGISTICS" -> [ opx EXCEPT !.travellingLogistics = cost ]
             [] group.head = "MISCELLANEOUS" -> [ opx EXCEPT !.miscellaneous = cost ]
             [] OTHER -> opx
  IN [ o EXCEPT !.total = @ + cost ]

RECURSIVE CogsForEach(_, _)
\* cogsExpenses.forEach(...) on the cogs object, in array order.
CogsForEach(groups, cogs) ==
  IF groups = << >> THEN cogs
  ELSE CogsForEach(Tail(groups), CogsGroup(cogs, Head(groups)))

RECURSIVE OpExForEach(_, _)
\* opExpenses.forEach(...) on the operatingExpenses object, in array order.
OpExForEach(groups, opx) ==
  IF groups = << >> THEN opx
  ELSE OpExForEach(Tail(groups), OpExGroup(opx, Head(groups)))

\* ------------------------------------------------------------ the report
\* Mutant: the words for a missing start and a missing end are exchanged.
PeriodSwapped(v, in) ==
  IF v = "month"
    THEN IF Truthy(in.month) THEN << "Month: ", in.month >> ELSE << "All time" >>
    ELSE IF Truthy(in.startDate) \/ Truthy(in.endDate)
           THEN << "From ",
                   IF Truthy(in.startDate) THEN in.startDate ELSE "latest",
                   " to ",
                   IF Truthy(in.endDate) THEN in.endDate ELSE "earliest" >>
           ELSE << "All time" >>

\* The period label: a list of the pieces the template string joins.
Period(v, in) ==
  IF v = "month"
    THEN IF Truthy(in.month) THEN << "Month: ", in.month >> ELSE << "All time" >>
    ELSE IF Truthy(in.startDate) \/ Truthy(in.endDate)
           THEN << "From ",
                   IF Truthy(in.startDate) THEN in.startDate ELSE "earliest",
                   " to ",
                   IF Truthy(in.endDate) THEN in.endDate ELSE "latest" >>
           ELSE << "All time" >>

\* Mutant: break-even counts as a loss.
NotesStrict(netIncome) == IF netIncome > 0 THEN "Profitable" ELSE "Loss"

Notes(netIncome) == IF netIncome >= 0 THEN "Profitable" ELSE "Loss"

\* eggSales._sum.amountReceived ?? 0
GrossRevenue(agg) == Coalesce(agg._sum.amountReceived, 0)

\* The placeholder for other income.
otherIncome == 0

TotalRevenue(grossRevenue, other) == grossRevenue + other

\* Mutant: the operating expenses are left out of the total.
TotalExpensesCogsOnly(cogs, operatingExpenses) == cogs.total

TotalExpenses(cogs, operatingExpenses) == cogs.total + operatingExpenses.total

\* Mutant: the operands of the subtraction are swapped.
NetIncomeSwapped(totalRevenue, totalExpenses) == totalExpenses - totalRevenue

NetIncome(totalRevenue, totalExpenses) == totalRevenue - totalExpenses

\* The IncomeStatementResponse built from the three query results.
IncomeStatement(v, in, agg, cogsGroups, opExGroups) ==
  LET grossRevenue == GrossRevenue(agg)
      totalRevenue == TotalRevenue(grossRevenue, otherIncome)
      cogs == CogsForEach(cogsGroups, cogsInit)
      operatingExpenses == OpExForEach(opExGroups, operatingExpensesInit)
      totalExpenses == TotalExpenses(cogs, operatingExpenses)
      netIncome == NetIncome(totalRevenue, totalExpenses)
  IN [ period |-> Period(v, in),
       grossRevenue |-> grossRevenue,
       otherIncome |-> otherIncome,
       totalRevenue |-> totalRevenue,
       cogs |-> cogs,
       operatingExpenses |-> operatingExpenses,
       totalExpenses |-> totalExpenses,
       netIncome |-> netIncome,
       notes |-> Notes(netIncome) ]

\* data: null
NullData == [ null |-> TRUE ]
NoResponse == [ statusCode |-> 0, message |-> "", data |-> NullData ]
NoAggregate == [ _sum |-> [ amountReceived |-> NullNum ] ]
NoInput == [ month |-> Undefined, farm |-> Undefined,
             startDate |-> Undefined, endDate |-> Undefined ]

Generated(data) ==
  [ statusCode |-> 200, message |-> "Income statement generated", data |-> data ]

Failed ==
  [ statusCode |-> 500, message |-> "Failed to generate income statement",
    data |-> NullData ]

\* ------------------------------------------------------ request inputs
MonthVariantInputs ==
  { [ NoInput EXCEPT !.month = m, !.farm = f ] :
      m \in { Undefined, "Dec" }, f \in { Undefined, "MATITAL" } }

RangeVariantInputs ==
  { [ NoInput EXCEPT !.startDate = a, !.endDate = b, !.farm = f ] :
      a \in { Undefined, "2026-01-31" }, b \in { Undefined, "2026-01-31" },
      f \in { Undefined, "MATITAL" } }

ExpenseBodies ==
  { [ expenseDate |-> t.date, month |-> t.month, farm |-> t.farm,
      expenseCost |-> a, head |-> h ] :
      t \in RowTags, a \in Amounts, h \in HeadInputs }

EggSaleBodies ==
  { [ saleDate |-> t.date, month |-> t.month, farm |-> t.farm,
      amountReceived |-> a ] :
      t \in RowTags, a \in Amounts }

\* Update payloads: the id aside, exactly one field is defined.
NoExpensePatch ==
  [ expenseDate |-> Undefined, month |-> Undefined, farm |-> Undefined,
    expenseCost |-> NullNum, head |-> Undefined ]

ExpensePatches ==
  { [ NoExpensePatch EXCEPT !.head = h ] : h \in HeadInputs }
    \cup { [ NoExpensePatch EXCEPT !.expenseCost = Num(a) ] : a \in Amounts }

NoEggSalePatch ==
  [ saleDate |-> Undefined, month |-> Undefined, farm |-> Undefined,
    amountReceived |-> NullNum ]

EggSalePatches ==
  { [ NoEggSalePatch EXCEPT !.amountReceived = Num(a) ] : a \in Amounts }

\* -------------------------------------------------------------- the store
\* The row prisma.expense.create stores for a validated body (the date
\* string is coerced to a Date, an absent month is NULL).
ExpenseRow(data) ==
  [ expenseDate |-> NewDate(data.expenseDate),
    month |-> IF data.month = Undefined THEN NullStr ELSE data.month,
    farm |-> data.farm,
    expenseCost |-> data.expenseCost,
    head |-> data.head ]

EggSaleRow(data) ==
  [ saleDate |-> NewDate(data.saleDate),
    month |-> IF data.month = Undefined THEN NullStr ELSE data.month,
    farm |-> data.farm,
    amountReceived |-> data.amountReceived ]

\* prisma.expense.create: the row gets the next id.
createExpenseService(data) ==
  /\ writes < MaxWrites
  /\ expense' = [ i \in DOMAIN expense \cup { nextExpenseId } |->
                    IF i = nextExpenseId THEN ExpenseRow(data) ELSE expense[i] ]
  /\ nextExpenseId' = nextExpenseId + 1
  /\ writes' = writes + 1
  /\ UNCHANGED << eggSale, nextEggSaleId, call, http, aside >>

\* prisma update: a field that is undefined in data keeps its value.
PatchExpense(row, data) ==
  [ expenseDate |-> IF data.expenseDate = Undefined THEN row.expenseDate
                    ELSE NewDate(data.expenseDate),
    month |-> IF data.month = Undefined THEN row.month ELSE data.month,
    farm |-> IF data.farm = Undefined THEN row.farm ELSE data.farm,
    expenseCost |-> Coalesce(data.expenseCost, row.expenseCost),
    head |-> IF data.head = Undefined THEN row.head ELSE data.head ]

\* An id that matches no row is answered 404 and leaves the store as it is
\* (a stuttering step).
updateExpenseService(id, data) ==
  /\ writes < MaxWrites
  /\ id \in DOMAIN expense
  /\ expense' = [ expense EXCEPT ![id] = PatchExpense(@, data) ]
  /\ writes' = writes + 1
  /\ UNCHANGED << eggSale, nextExpenseId, nextEggSaleId, call, http, aside >>

deleteExpenseService(id) ==
  /\ writes < MaxWrites
  /\ id \in DOMAIN expense
  /\ expense' = [ i \in DOMAIN expense \ { id } |-> expense[i] ]
  /\ writes' = writes + 1
  /\ UNCHANGED << eggSale, nextExpenseId, nextEggSaleId, call, http, aside >>

createEggSaleService(data) ==
  /\ writes < MaxWrites
  /\ eggSale' = [ i \in DOMAIN eggSale \cup { nextEggSaleId } |->
                    IF i = nextEggSaleId THEN EggSaleRow(data) ELSE eggSale[i] ]
  /\ nextEggSaleId' = nextEggSaleId + 1
  /\ writes' = writes + 1
  /\ UNCHANGED << expense, nextExpenseId, call, http, aside >>

PatchEggSale(row, data) ==
  [ saleDate |-> IF data.saleDate = Undefined THEN row.saleDate
                 ELSE NewDate(data.saleDate),
    month |-> IF data.month = Undefined THEN row.month ELSE data.month,
    farm |-> IF data.farm = Undefined THEN row.farm ELSE data.farm,
    amountReceived |-> Coalesce(data.amountReceived, row.amountReceived) ]

updateEggSaleService(id, data) ==
  /\ writes < MaxWrites
  /\ id \in DOMAIN eggSale
  /\ eggSale' = [ eggSale EXCEPT ![id] = PatchEggSale(@, data) ]
  /\ writes' = writes + 1
  /\ UNCHANGED << expense, nextExpenseId, nextEggSaleId, call, http, aside >>

deleteEggSaleService(id) ==
  /\ writes < MaxWrites
  /\ id \in DOMAIN eggSale
  /\ eggSale' = [ i \in DOMAIN eggSale \ { id } |-> eggSale[i] ]
  /\ writes' = writes + 1
  /\ UNCHANGED << expense, nextExpenseId, nextEggSaleId, call, http, aside >>

\* ------------------------------------------------ POST /expenses
\* The date strings z.coerce.date() makes a Date of.
ParsesAsDate(s) ==
  s \in { "2025-12-31", "2026-01-01", "2026-01-31", "2026-01-31T12:00:00Z",
          "2026-02-01" }

\* createExpenseSchema.parse(body) does not throw.
createExpenseSchema(body) ==
  /\ ParsesAsDate(body.expenseDate)
  /\ body.month # Undefined => Len(body.month) = 3
  /\ body.farm \in { "MATITAL", "KAASI_19", "OTHER" }
  /\ body.expenseCost > 0
  /\ body.head \in Range(EXPENSE_HEADS)

\* A body the schema accepts, and bodies that differ from it in one field
\* the schema rejects.
GoodBody ==
  [ expenseDate |-> "2026-01-31", month |-> "Dec", farm |-> "MATITAL",
    expenseCost |-> 1, head |-> "FEED" ]

BadBodies ==
  { [ GoodBody EXCEPT !.head = "EGGS" ],
    [ GoodBody EXCEPT !.expenseCost = 0 ],
    [ GoodBody EXCEPT !.expenseCost = 0 - 1 ],
    [ GoodBody EXCEPT !.farm = Undefined ],
    [ GoodBody EXCEPT !.month = "December" ],
    [ GoodBody EXCEPT !.expenseDate = "yesterday" ] }

\* Requests: with or without an authenticated user, with a body of either
\* kind.
Requests ==
  { [ user |-> u, body |-> b ] :
      u \in BOOLEAN,
      b \in BadBodies \cup
            { [ expenseDate |-> t.date, month |-> t.month, farm |-> t.farm,
                expenseCost |-> a, head |-> h ] :
                t \in RowTags, a \in Amounts, h \in { "FEED", "TP" } } }

NoExchange == [ req |-> [ route |-> "", user |-> FALSE, body |-> << >> ],
                res |-> [ statusCode |-> 0, json |-> << >> ] ]

\* getCustomizedError(error, res) for an error of the given name.
getCustomizedError(name) ==
  IF name \in { "JsonWebTokenError", "TokenExpiredError" }
    THEN [ statusCode |-> 401,
           json |-> [ success |-> FALSE, message |-> "Invalid or expired token" ] ]
    ELSE [ statusCode |-> 500,
           json |-> [ success |-> FALSE,
                      message |-> "Internal server error during authentication" ] ]

\* The outcomes of prisma.expense.create inside createExpenseService.
CreateOutcomes == { "created", "P2002", "error" }

\* createExpenseController: 401 without a user; the schema's ZodError goes
\* to getCustomizedError; otherwise the service result is sent as it is.
createExpenseController(req) ==
  IF ~req.user
    THEN /\ http' = [ req |-> req,
                      res |-> [ statusCode |-> 401,
                                json |-> [ error |-> "Unauthorized" ] ] ]
         /\ UNCHANGED << store, call, aside >>
  ELSE IF ~createExpenseSchema(req.body)
    THEN /\ http' = [ req |-> req, res |-> getCustomizedError("ZodError") ]
         /\ UNCHANGED << store, call, aside >>
  ELSE \E outcome \in CreateOutcomes :
         IF outcome = "created"
           THEN /\ writes < MaxWrites
                /\ expense' = [ i \in DOMAIN expense \cup { nextExpenseId } |->
                                  IF i = nextExpenseId THEN ExpenseRow(req.body)
                                  ELSE expense[i] ]
                /\ nextExpenseId' = nextExpenseId + 1
                /\ writes' = writes + 1
                /\ http' = [ req |-> req,
                             res |-> [ statusCode |-> 201,
                                       json |-> [ message |-> "Expense recorded successfully",
                                                  data |-> ExpenseRow(req.body) ] ] ]
                /\ UNCHANGED << eggSale, nextEggSaleId, call, aside >>
           ELSE /\ http' = [ req |-> req,
                             res |-> [ statusCode |-> IF outcome = "P2002" THEN 409 ELSE 500,
                                       json |-> [ message |->
                                         IF outcome = "P2002"
                                           THEN "Duplicate expense entry (unique constraint violation)"
                                           ELSE "Failed to create expense" ] ] ]
                /\ UNCHANGED << store, call, aside >>

\* ------------------------------------------------ POST /auth/signup, signin
\* s.toLowerCase().trim() on the email strings of the model.
toLowerCaseTrim(s) ==
  IF s \in { "a@x.io", "A@x.io", " a@x.io " } THEN "a@x.io" ELSE s

\* The strings an e-mail check accepts: an address, in any case of letters,
\* with nothing around it.
IsEmail(s) == s \in { "a@x.io", "A@x.io", "b@x.io" }

\* signupSchema.parse(body) and signinSchema.parse(body) do not throw; the
\* parsed data are the body as it is.
signupSchema(body) ==
  body.name # "" /\ IsEmail(body.email) /\ body.password # ""
signinSchema(body) ==
  IsEmail(body.email) /\ body.password # ""

SignupBodies ==
  { [ name |-> "Ali", email |-> e, password |-> p ] :
      e \in { "a@x.io", "A@x.io", " a@x.io ", "b@x.io" },
      p \in { "pw1", "pw2" } }
SigninBodies ==
  { [ email |-> e, password |-> p ] :
      e \in { "a@x.io", "A@x.io", "b@x.io", "" }, p \in { "pw1", "pw2" } }

\* bcrypt.hash and bcrypt.compare.
Hash(password) == << "bcrypt", password >>
Compare(password, hashed) == hashed = Hash(password)

\* The row without its password.
SafeUser(row) == [ id |-> row.id, name |-> row.name, email |-> row.email,
                   role |-> row.role ]

\* signupController with signupService: the schema's ZodError and the
\* unique-constraint error of prisma.user.create (email is unique) both go
\* to getCustomizedError. The field submitted of a row is not a column: it
\* keeps the email string of the request that created the row.
signupController(body) ==
  LET email == toLowerCaseTrim(body.email)
      row == [ id |-> Len(user) + 1, name |-> body.name, email |-> email,
               password |-> Hash(body.password), role |-> "user",
               submitted |-> body.email ]
      req == [ route |-> "signup", body |-> body ]
  IN /\ IF ~signupSchema(body)
          THEN /\ http' = [ req |-> req, res |-> getCustomizedError("ZodError") ]
               /\ user' = user
        ELSE IF \E u \in DOMAIN user : user[u].email = email
          THEN /\ http' = [ req |-> req,
                            res |-> getCustomizedError("PrismaClientKnownRequestError") ]
               /\ user' = user
        ELSE /\ user' = Append(user, row)
             /\ http' = [ req |-> req,
                          res |-> [ statusCode |-> 201,
                                    json |-> [ message |-> "User created successfully",
                                               user |-> SafeUser(row) ] ] ]
     /\ UNCHANGED << store, call, feedPurchase, feedCall, records, proc >>

\* signToken(payload): the token carries its payload.
signToken(payload) == [ kind |-> "signed", payload |-> payload ]

\* signinController with signinService: findUnique by the email as given.
signinController(body) ==
  LET found == { u \in DOMAIN user : user[u].email = body.email }
      req == [ route |-> "signin", body |-> body ]
      invalid == [ statusCode |-> 401,
                   json |-> [ message |-> "Invalid credentials" ] ]
  IN /\ http' =
          [ req |-> req,
            res |->
              IF ~signinSchema(body) THEN getCustomizedError("ZodError")
              ELSE IF found = {} THEN invalid
              ELSE LET row == user[CHOOSE u \in found : TRUE]
                   IN IF ~Compare(body.password, row.password) THEN invalid
                      ELSE [ statusCode |-> 200,
                             json |-> [ message |-> "Login successful",
                                        token |-> signToken([ id |-> row.id,
                                                              email |-> row.email,
                                                              role |-> row.role ]) ] ] ]
     /\ UNCHANGED << store, call, aside >>

\* ------------------------------------------- getIncomeStatementService
\* The call is made: the where objects are functions of the input.
Call(v, in) ==
  /\ pc = "idle"
  /\ pc' = "aggregate"
  /\ variant' = v
  /\ input' = in
  /\ UNCHANGED << aside, http, store, eggSales, cogsExpenses, threw, response >>

\* Mutant: the revenue query is a deleteMany, which removes the rows it
\* matches.
AggregateEggSalesDeleting ==
  /\ pc = "aggregate"
  /\ eggSales' = EggSaleAggregate(eggSale, SaleWhereOf(variant, input))
  /\ eggSale' = SelectSeq(eggSale,
                  LAMBDA row : ~MatchesWhere(row, SaleWhereOf(variant, input)))
  /\ pc' = "groupByCogs"
  /\ UNCHANGED << aside, http, expense, nextExpenseId, nextEggSaleId, writes,
                  variant, input, cogsExpenses, threw, response >>

\* await prisma.eggSale.aggregate(...)
AggregateEggSales ==
  /\ pc = "aggregate"
  /\ eggSales' = EggSaleAggregate(eggSale, SaleWhereOf(variant, input))
  /\ pc' = "groupByCogs"
  /\ UNCHANGED << aside, http, store, variant, input, cogsExpenses, threw, response >>

\* await prisma.expense.groupBy(... head: { in: cogsHeads } ...)
GroupByCogs ==
  /\ pc = "groupByCogs"
  /\ \E order \in GroupOrders :
       cogsExpenses' =
         ExpenseGroupBy(expense,
                        WithHeadIn(ExpenseWhereOf(variant, input), cogsHeads),
                        order)
  /\ pc' = "groupByOpEx"
  /\ UNCHANGED << aside, http, store, variant, input, eggSales, threw, response >>

\* await prisma.expense.groupBy(... head: { in: opExHeads } ...), then the
\* rest of the try block up to the return.
GroupByOpEx ==
  /\ pc = "groupByOpEx"
  /\ \E order \in GroupOrders :
       LET opExpenses ==
             ExpenseGroupBy(expense,
                            WithHeadIn(ExpenseWhereOf(variant, input), opExHeads),
                            order)
       IN response' = Generated(IncomeStatement(variant, input, eggSales,
                                                cogsExpenses, opExpenses))
  /\ pc' = "done"
  /\ UNCHANGED << aside, http, store, variant, input, eggSales, cogsExpenses, threw >>

\* Mutant: the try block does not cover the last query, whose rejection
\* leaves the service without a result.
QueryThrowsUncaught ==
  /\ pc \in { "aggregate", "groupByCogs", "groupByOpEx" }
  /\ threw' = pc
  /\ response' = IF pc = "groupByOpEx" THEN NoResponse ELSE Failed
  /\ pc' = "done"
  /\ UNCHANGED << aside, http, store, variant, input, eggSales, cogsExpenses >>

\* The awaited query rejects: the catch block returns the failure result.
QueryThrows ==
  /\ pc \in { "aggregate", "groupByCogs", "groupByOpEx" }
  /\ threw' = pc
  /\ response' = Failed
  /\ pc' = "done"
  /\ UNCHANGED << aside, http, store, variant, input, eggSales, cogsExpenses >>

\* The caller has the result; the call's locals are gone.
Return ==
  /\ pc = "done"
  /\ pc' = "idle"
  /\ variant' = "month"
  /\ input' = NoInput
  /\ eggSales' = NoAggregate
  /\ cogsExpenses' = << >>
  /\ threw' = ""
  /\ response' = NoResponse
  /\ UNCHANGED << aside, http, store >>

\* ------------------------------------ GET /api/reports/income-statement
\* req.user before authMiddleware has set it: no id.
NoUser == [ id |-> 0, name |-> "", email |-> "", role |-> "" ]

\* Authorization headers: none, another scheme, and bearer tokens: signed
\* for user 1, signed for user 2, signed with an id that is not a number,
\* with a wrong signature, expired.
NoHeader == [ scheme |-> "", token |-> [ kind |-> "", payload |-> [ id |-> NullNum ] ] ]
Headers ==
  { NoHeader, [ NoHeader EXCEPT !.scheme = "Basic" ] }
    \cup { [ scheme |-> "Bearer", token |-> [ kind |-> k, payload |-> [ id |-> i ] ] ] :
             k \in { "signed", "forged", "expired" },
             i \in { Num(1), Num(2), NullNum } }

\* verifyToken(token): the name of the error it throws, "" if none.
verifyToken(token) ==
  CASE token.kind = "signed" -> ""
    [] token.kind = "expired" -> "TokenExpiredError"
    [] OTHER -> "JsonWebTokenError"

Unauthorized(message) ==
  [ statusCode |-> 401, json |-> [ success |-> FALSE, message |-> message ] ]

\* No request has been received.
NoRequest ==
  [ req |-> [ route |-> "", header |-> NoHeader, query |-> NoInput,
              user |-> NoUser, stage |-> "done" ],
    res |-> [ statusCode |-> 0, json |-> << >> ] ]

\* A request arrives; the one before it has been answered.
Receive(header, query) ==
  /\ http.req.stage = "done"
  /\ http' = [ req |-> [ route |-> "/api/reports/income-statement",
                         header |-> header, query |-> query,
                         user |-> NoUser, stage |-> "auth" ],
               res |-> [ statusCode |-> 0, json |-> << >> ] ]
  /\ UNCHANGED << store, call, aside >>

\* Mutant: the payload of the token is taken for the user, without the
\* lookup.
authMiddlewareNoLookup(lookup) ==
  LET header == http.req.header
      thrown == verifyToken(header.token)
      answer(res) == [ http EXCEPT !.res = res, !.req.stage = "done" ]
  IN /\ http.req.stage = "auth"
     /\ http' =
          IF header.scheme # "Bearer"
            THEN answer(Unauthorized("Unauthorized - No token provided"))
          ELSE IF thrown # ""
            THEN answer(Unauthorized("Invalid or expired token"))
          ELSE IF header.token.payload.id = NullNum
            THEN answer(Unauthorized("Invalid token payload"))
          ELSE [ http EXCEPT !.req.user = [ NoUser EXCEPT !.id = header.token.payload.id[1] ],
                             !.req.stage = "controller" ]
     /\ UNCHANGED << store, call, aside >>

\* authMiddleware: the user lookup resolves or rejects.
authMiddleware(lookup) ==
  LET header == http.req.header
      thrown == verifyToken(header.token)
      found == { u \in DOMAIN user : Num(user[u].id) = header.token.payload.id }
      answer(res) == [ http EXCEPT !.res = res, !.req.stage = "done" ]
  IN /\ http.req.stage = "auth"
     /\ http' =
          IF header.scheme # "Bearer"
            THEN answer(Unauthorized("Unauthorized - No token provided"))
          ELSE IF thrown # ""
            THEN answer(Unauthorized("Invalid or expired token"))
          ELSE IF header.token.payload.id = NullNum
            THEN answer(Unauthorized("Invalid token payload"))
          ELSE IF lookup = "rejects"
            THEN answer([ statusCode |-> 500,
                          json |-> [ success |-> FALSE,
                                     message |-> "Internal server error during authentication" ] ])
          ELSE IF found = {}
            THEN answer(Unauthorized("User not found - please login again"))
          ELSE [ http EXCEPT !.req.user = SafeUser(user[CHOOSE u \in found : TRUE]),
                             !.req.stage = "controller" ]
     /\ UNCHANGED << store, call, aside >>

\* getIncomeStatementController up to the call of the service.
getIncomeStatementController ==
  /\ http.req.stage = "controller"
  /\ pc = "idle"
  /\ IF http.req.user.id = 0
       THEN /\ http' = [ http EXCEPT !.res = [ statusCode |-> 401,
                                               json |-> [ error |-> "Unauthorized" ] ],
                                     !.req.stage = "done" ]
            /\ UNCHANGED << pc, variant, input >>
       ELSE /\ http' = [ http EXCEPT !.req.stage = "service" ]
            /\ pc' = "aggregate"
            /\ variant' = "month"
            /\ input' = [ NoInput EXCEPT !.month = http.req.query.month,
                                         !.farm = http.req.query.farm ]
  /\ UNCHANGED << aside, store, eggSales, cogsExpenses, threw, response >>

\* The service has returned: the controller sends its result.
Respond ==
  /\ http.req.stage = "service"
  /\ pc = "done"
  /\ http' = [ http EXCEPT
                 !.res = [ statusCode |-> response.statusCode,
                           json |-> IF response.data = NullData
                                      THEN [ message |-> response.message ]
                                      ELSE [ message |-> response.message,
                                             data |-> response.data ] ],
                 !.req.stage = "done" ]
  /\ pc' = "idle"
  /\ variant' = "month"
  /\ input' = NoInput
  /\ eggSales' = NoAggregate
  /\ cogsExpenses' = << >>
  /\ threw' = ""
  /\ response' = NoResponse
  /\ UNCHANGED << aside, store >>

\* ------------------------------------------ the other tables and calls
\* The callers whose calls may overlap.
Callers == { 1, 2 }

\* The record types of the update and delete services.
RecordTypes == { "eggSale", "expense", "salary", "feedPurchase", "eggProduction" }

\* The tables Salary and EggProduction, empty.
EmptyRecords == [ t \in { "salary", "eggProduction" } |-> << >> ]

\* ------------------------------------------------------ feed purchases
\* Bodies of createFeedPurchase: a date, a farm, and a debit, a credit or
\* both.
FeedBodies ==
  { [ date |-> d, farm |-> f, debit |-> m[1], credit |-> m[2] ] :
      d \in { "2026-01-01", "2026-01-31", "2026-02-01" },
      f \in { "MATITAL", "KAASI_19" },
      m \in { << Num(1), NullNum >>, << NullNum, Num(MaxAmount) >>,
               << Num(1), Num(MaxAmount) >> } }

NoFeedCall ==
  [ pc |-> "idle",
    data |-> [ date |-> "", farm |-> "", debit |-> NullNum, credit |-> NullNum ],
    lastRecord |-> 0, newBalance |-> 0 ]

\* The rows of the farm.
OfFeedFarm(farm) == { i \in DOMAIN feedPurchase : feedPurchase[i].farm = farm }

\* findFirst({ where: { farm }, orderBy: { date: "desc" } }): the rows it
\* may return, any of those with the latest date; none if there is no row.
FindFirstByDateDesc(farm) ==
  { i \in OfFeedFarm(farm) :
      \A j \in OfFeedFarm(farm) : feedPurchase[j].date <= feedPurchase[i].date }

\* Mutant: the debit is added to the balance.
NewBalanceDebitAdded(balance, data) ==
  balance
    + (IF data.debit # NullNum /\ data.debit[1] # 0 THEN data.debit[1] ELSE 0)
    + (IF data.credit # NullNum /\ data.credit[1] # 0 THEN data.credit[1] ELSE 0)

\* if (data.debit) newBalance -= data.debit;
\* if (data.credit) newBalance += data.credit;
NewBalance(balance, data) ==
  balance
    - (IF data.debit # NullNum /\ data.debit[1] # 0 THEN data.debit[1] ELSE 0)
    + (IF data.credit # NullNum /\ data.credit[1] # 0 THEN data.credit[1] ELSE 0)

\* Calls of createFeedPurchaseService between their two queries.
FeedCallsInFlight == { c \in Callers : feedCall[c].pc # "idle" }

\* createFeedPurchaseService up to the create: the last record is read and
\* the new balance computed.
createFeedPurchaseRead(c, data) ==
  /\ feedCall[c].pc = "idle"
  /\ writes + Cardinality(FeedCallsInFlight) < MaxWrites
  /\ \E last \in IF FindFirstByDateDesc(data.farm) = {} THEN { 0 }
                  ELSE FindFirstByDateDesc(data.farm) :
       feedCall' = [ feedCall EXCEPT ![c] =
                       [ pc |-> "create", data |-> data, lastRecord |-> last,
                         newBalance |->
                           NewBalance(IF last = 0 THEN 0
                                      ELSE feedPurchase[last].runningBalance,
                                      data) ] ]
  /\ UNCHANGED << store, call, http, user, feedPurchase, records, proc >>

\* prisma.feedPurchase.create with the balance computed before.
createFeedPurchaseInsert(c) ==
  /\ feedCall[c].pc = "create"
  /\ feedPurchase' =
       Append(feedPurchase,
              [ id |-> Len(feedPurchase) + 1,
                date |-> NewDate(feedCall[c].data.date),
                farm |-> feedCall[c].data.farm,
                debit |-> feedCall[c].data.debit,
                credit |-> feedCall[c].data.credit,
                runningBalance |-> feedCall[c].newBalance ])
  /\ feedCall' = [ feedCall EXCEPT ![c] = NoFeedCall ]
  /\ writes' = writes + 1
  /\ UNCHANGED << expense, eggSale, nextExpenseId, nextEggSaleId, call, http,
                  user, records, proc >>

\* Payloads of updateFeedPurchase: debit and credit, each undefined or a
\* number; the other fields are undefined.
FeedPatches ==
  { [ debit |-> x, credit |-> y ] :
      x \in { NullNum, Num(1), Num(MaxAmount) },
      y \in { NullNum, Num(1), Num(MaxAmount) } }

\* The row prisma.feedPurchase.update leaves: the balance is the existing
\* one less the payload's debit plus the payload's credit.
UpdatedFeedRow(row, data) ==
  [ row EXCEPT
      !.debit = IF data.debit = NullNum THEN @ ELSE data.debit,
      !.credit = IF data.credit = NullNum THEN @ ELSE data.credit,
      !.runningBalance = @ - Coalesce(data.debit, 0) + Coalesce(data.credit, 0) ]

\* updateFeedPurchaseService for the id of a record (another id is answered
\* 404 and changes nothing).
updateFeedPurchaseService(id, data) ==
  /\ writes < MaxWrites
  /\ id \in DOMAIN feedPurchase
  /\ feedPurchase' = [ feedPurchase EXCEPT ![id] = UpdatedFeedRow(@, data) ]
  /\ writes' = writes + 1
  /\ UNCHANGED << expense, eggSale, nextExpenseId, nextEggSaleId, call, http,
                  user, feedCall, records, proc >>

\* summary._sum.debit ?? 0 and summary._sum.credit ?? 0
RECURSIVE FeedSum(_, _)
FeedSum(ids, col) ==
  IF ids = {} THEN 0
  ELSE LET i == CHOOSE i \in ids : TRUE
       IN Coalesce(feedPurchase[i][col], 0) + FeedSum(ids \ { i }, col)

\* getFeedPurchaseSummaryService(undefined, farm): the data it may return.
getFeedPurchaseSummaryService(farm) ==
  { [ totalDebit |-> FeedSum(OfFeedFarm(farm), "debit"),
      totalCredit |-> FeedSum(OfFeedFarm(farm), "credit"),
      currentBalance |-> b ] :
      b \in IF FindFirstByDateDesc(farm) = {} THEN { 0 }
            ELSE { feedPurchase[i].runningBalance : i \in FindFirstByDateDesc(farm) } }


\* ---------------------------------------- update and delete services
\* The table of a record type.
Table(t) ==
  CASE t = "expense" -> expense
    [] t = "eggSale" -> eggSale
    [] t = "feedPurchase" -> feedPurchase
    [] OTHER -> records[t]

\* An update payload per record type; the id is apart.
PatchOf(t) ==
  CASE t = "expense" -> [ NoExpensePatch EXCEPT !.head = "RENT" ]
    [] t = "eggSale" -> [ NoEggSalePatch EXCEPT !.amountReceived = Num(MaxAmount) ]
    [] t = "feedPurchase" -> [ debit |-> Num(1), credit |-> NullNum ]
    [] t = "salary" -> [ salaryAmount |-> Num(MaxAmount) ]
    [] OTHER -> [ totalEggs |-> Num(MaxAmount) ]

\* The row prisma's update leaves.
Updated(t, row, data) ==
  CASE t = "expense" -> PatchExpense(row, data)
    [] t = "eggSale" -> PatchEggSale(row, data)
    [] t = "feedPurchase" -> UpdatedFeedRow(row, data)
    [] t = "salary" -> [ row EXCEPT !.salaryAmount = Coalesce(data.salaryAmount, @) ]
    [] OTHER -> [ row EXCEPT !.totalEggs = Coalesce(data.totalEggs, @) ]

\* The service results.
NoResult == [ statusCode |-> 0, data |-> NullData ]
NotFound == [ statusCode |-> 404, data |-> NullData ]

\* The result of the catch block when update or delete throws P2025, the
\* record having gone since findUnique: the delete services of egg sales,
\* expenses and egg productions answer 404, every other service 500.
CaughtP2025(op, t) ==
  IF op = "delete" /\ t \in { "eggSale", "expense", "eggProduction" }
    THEN NotFound
    ELSE [ statusCode |-> 500, data |-> NullData ]

NoProc == [ pc |-> "idle", op |-> "", type |-> "", id |-> 0,
            data |-> << >>, result |-> NoResult ]

\* The calls between findUnique and the write.
ProcsInFlight == { c \in Callers : proc[c].pc = "write" }

\* Mutant: the service does not return when findUnique finds no record.
FindRecordAlwaysFound(c, op, t, id) ==
  /\ proc[c].pc = "idle"
  /\ writes + Cardinality(ProcsInFlight) < MaxWrites
  /\ proc' = [ proc EXCEPT ![c] =
                 [ pc |-> "write", op |-> op, type |-> t, id |-> id,
                   data |-> PatchOf(t), result |-> NoResult ] ]
  /\ UNCHANGED << store, call, http, user, feedPurchase, feedCall, records >>

\* The update or delete service of record type t up to its write:
\* findUnique, and the 404 result if there is no record of the id.
FindRecord(c, op, t, id) ==
  /\ proc[c].pc = "idle"
  /\ writes + Cardinality(ProcsInFlight) < MaxWrites
  /\ proc' = [ proc EXCEPT ![c] =
                 IF id \in DOMAIN Table(t)
                   THEN [ pc |-> "write", op |-> op, type |-> t, id |-> id,
                          data |-> PatchOf(t), result |-> NoResult ]
                   ELSE [ pc |-> "returned", op |-> op, type |-> t, id |-> id,
                          data |-> PatchOf(t), result |-> NotFound ] ]
  /\ UNCHANGED << store, call, http, user, feedPurchase, feedCall, records >>

\* The table of type t after the write of (op, id, data); the write throws
\* if the id is not in the table.
Written(op, t, id, data) ==
  IF op = "delete"
    THEN [ i \in DOMAIN Table(t) \ { id } |-> Table(t)[i] ]
    ELSE [ Table(t) EXCEPT ![id] = Updated(t, @, data) ]

\* prisma's update or delete, and the result of the service.
WriteRecord(c) ==
  LET op == proc[c].op
      t == proc[c].type
      id == proc[c].id
      thrown == id \notin DOMAIN Table(t)
      new == IF thrown THEN Table(t) ELSE Written(op, t, id, proc[c].data)
  IN /\ proc[c].pc = "write"
     /\ expense' = IF t = "expense" THEN new ELSE expense
     /\ eggSale' = IF t = "eggSale" THEN new ELSE eggSale
     /\ feedPurchase' = IF t = "feedPurchase" THEN new ELSE feedPurchase
     /\ records' = IF t \in DOMAIN records
                     THEN [ records EXCEPT ![t] = new ] ELSE records
     /\ writes' = IF thrown THEN writes ELSE writes + 1
     /\ proc' = [ proc EXCEPT ![c].pc = "returned",
                              ![c].result =
                                IF thrown THEN CaughtP2025(op, t)
                                ELSE IF op = "delete"
                                  THEN [ statusCode |-> 200, data |-> NullData ]
                                ELSE [ statusCode |-> 200, data |-> new[id] ] ]
     /\ UNCHANGED << nextExpenseId, nextEggSaleId, call, http, user, feedCall >>

\* The caller has the result.
ReturnResult(c) ==
  /\ proc[c].pc = "returned"
  /\ proc' = [ proc EXCEPT ![c] = NoProc ]
  /\ UNCHANGED << store, call, http, user, feedPurchase, feedCall, records >>

\* ------------------------ PUT and DELETE /expenses/:id, /egg-productions/:id
\* req.user as authMiddleware sets it (a user of role "user", an admin),
\* or not set.
RequestUsers ==
  { NoUser,
    [ id |-> 1, name |-> "Ali", email |-> "a@x.io", role |-> "user" ],
    [ id |-> 2, name |-> "Sara", email |-> "b@x.io", role |-> "admin" ] }

\* The requests: the egg-production controllers are there in two variants.
AdminRequests ==
  { [ route |-> t, op |-> op, variant |-> v, user |-> u, id |-> id ] :
      t \in { "expense", "eggProduction" }, op \in { "update", "delete" },
      v \in { "production.controller.ts", "part_001" },
      u \in RequestUsers, id \in 0..3 }

\* The guard at the head of the controller: true if it answers 401.
\* expense.controller.ts and production.controller.ts:
\*   !req.user?.id || req.user?.role !== "admin"
\* part_001:
\*   !req.user?.id && req.user?.role === "admin"
AnswersUnauthorized(req) ==
  IF req.route = "eggProduction" /\ req.variant = "part_001"
    THEN req.user.id = 0 /\ req.user.role = "admin"
    ELSE req.user.id = 0 \/ req.user.role # "admin"

\* The controller of an update or delete request with the service it
\* awaits, one request at a time.
updateDeleteController(req) ==
  LET t == req.route
      found == req.id \in DOMAIN Table(t)
      called == /\ ~AnswersUnauthorized(req)
                /\ ~(t = "eggProduction" /\ req.id <= 0)
                /\ ~(t = "expense" /\ req.op = "update" /\ req.id <= 0)
      new == IF called /\ found THEN Written(req.op, t, req.id, PatchOf(t))
             ELSE Table(t)
      res == IF AnswersUnauthorized(req)
               THEN [ statusCode |-> 401, json |-> [ error |-> "Unauthorized" ] ]
             ELSE IF t = "eggProduction" /\ req.id <= 0
               THEN [ statusCode |-> 400, json |-> [ error |-> "Invalid ID" ] ]
             ELSE IF t = "expense" /\ req.op = "update" /\ req.id <= 0
               THEN getCustomizedError("ZodError")
             ELSE IF ~found
               THEN [ statusCode |-> 404, json |-> [ message |-> "not found" ] ]
             ELSE [ statusCode |-> 200, json |-> [ message |-> req.op ] ]
  IN /\ writes < MaxWrites
     /\ http' = [ req |-> req, res |-> res ]
     /\ expense' = IF t = "expense" THEN new ELSE expense
     /\ records' = IF t \in DOMAIN records
                     THEN [ records EXCEPT ![t] = new ] ELSE records
     /\ writes' = IF called /\ found THEN writes + 1 ELSE writes
     /\ UNCHANGED << eggSale, nextExpenseId, nextEggSaleId, call, user,
                     feedPurchase, feedCall, proc >>

\* ------------------------------------------------------- specification
EmptyTable == << >>

Init ==
  /\ expense = EmptyTable
  /\ eggSale = EmptyTable
  /\ nextExpenseId = 1
  /\ nextEggSaleId = 1
  /\ writes = 0
  /\ pc = "idle"
  /\ variant = "month"
  /\ input = NoInput
  /\ eggSales = NoAggregate
  /\ cogsExpenses = << >>
  /\ threw = ""
  /\ response = NoResponse
  /\ http = NoExchange
  /\ user = << >>
  /\ feedPurchase = << >>
  /\ feedCall = [ c \in Callers |-> NoFeedCall ]
  /\ records = EmptyRecords
  /\ proc = [ c \in Callers |-> NoProc ]

Next ==
  \/ \E data \in ExpenseBodies : createExpenseService(data)
  \/ \E id \in DOMAIN expense, data \in ExpensePatches : updateExpenseService(id, data)
  \/ \E id \in DOMAIN expense : deleteExpenseService(id)
  \/ \E data \in EggSaleBodies : createEggSaleService(data)
  \/ \E id \in DOMAIN eggSale, data \in EggSalePatches : updateEggSaleService(id, data)
  \/ \E id \in DOMAIN eggSale : deleteEggSaleService(id)
  \/ \E in \in MonthVariantInputs : Call("month", in)
  \/ \E in \in RangeVariantInputs : Call("range", in)
  \/ AggregateEggSales
  \/ GroupByCogs
  \/ GroupByOpEx
  \/ QueryThrows
  \/ Return

Spec == Init /\ [][Next]_vars

\* -------------------------------------------- a store that does not change
KnownHeads == cogsHeads \o opExHeads

\* The tags of the rows of an unchanging store: those of the request
\* bodies and a row of the first day of the year that has no month.
StaticTags ==
  RowTags \cup { [ farm |-> "MATITAL", month |-> Undefined, date |-> "2026-01-01" ] }

\* One expense row per known head (4 COGS + 12 OpEx), all of one farm, month
\* and date, the k-th of cost plan[k].
BucketTable(plan, t) ==
  [ k \in 1..Len(KnownHeads) |->
      ExpenseRow([ expenseDate |-> t.date, month |-> t.month, farm |-> t.farm,
                   expenseCost |-> plan[k], head |-> KnownHeads[k] ]) ]

\* Pairwise different costs, ascending and descending along KnownHeads.
CostPlans ==
  { [ k \in 1..Len(KnownHeads) |-> k ],
    [ k \in 1..Len(KnownHeads) |-> 2 * (Len(KnownHeads) + 1 - k) ] }

SaleRows ==
  { EggSaleRow([ saleDate |-> t.date, month |-> t.month, farm |-> t.farm,
                 amountReceived |-> a ]) : t \in StaticTags, a \in Amounts }

\* EggSale tables of one and of two rows.
SaleTables ==
  { [ i \in {1} |-> r ] : r \in SaleRows }
    \cup { [ i \in {1, 2} |-> IF i = 1 THEN r1 ELSE r2 ] :
             r1 \in SaleRows, r2 \in SaleRows }

\* The store after the creates that give the tables, with no call made yet.
InitStatic ==
  /\ expense \in { EmptyTable } \cup
                 { BucketTable(plan, t) : plan \in CostPlans, t \in StaticTags }
  /\ eggSale \in { EmptyTable } \cup SaleTables
  /\ nextExpenseId = Len(expense) + 1
  /\ nextEggSaleId = Len(eggSale) + 1
  /\ writes = Len(expense) + Len(eggSale)
  /\ pc = "idle"
  /\ variant = "month"
  /\ input = NoInput
  /\ eggSales = NoAggregate
  /\ cogsExpenses = << >>
  /\ threw = ""
  /\ response = NoResponse
  /\ http = NoExchange
  /\ user = << >>
  /\ feedPurchase = << >>
  /\ feedCall = [ c \in Callers |-> NoFeedCall ]
  /\ records = EmptyRecords
  /\ proc = [ c \in Callers |-> NoProc ]

\* Calls of the service only: nothing writes to the store.
NextStatic ==
  \/ \E in \in MonthVariantInputs : Call("month", in)
  \/ \E in \in RangeVariantInputs : Call("range", in)
  \/ AggregateEggSales
  \/ GroupByCogs
  \/ GroupByOpEx
  \/ QueryThrows
  \/ Return

SpecStatic == InitStatic /\ [][NextStatic]_vars

\* -------------------------------------------- a store at rest, mixed rows
\* The tags of the rows of a store at rest: farms, three-letter spellings
\* of the month (the length the create schemas accept) and dates before, at
\* the ends of, within the last day of and after January 2026.
QuietTags ==
  { [ farm |-> "MATITAL",  month |-> "Dec",       date |-> "2026-01-31" ],
    [ farm |-> "KAASI_19", month |-> "Jan",       date |-> "2026-02-01" ],
    [ farm |-> "MATITAL",  month |-> Undefined,   date |-> "2026-01-01" ],
    [ farm |-> "MATITAL",  month |-> "dec",       date |-> "2026-01-31T12:00:00Z" ],
    [ farm |-> "MATITAL",  month |-> "DEC",       date |-> "2025-12-31" ],
    [ farm |-> "KAASI_19", month |-> "Jan",       date |-> "2026-01-31" ],
    [ farm |-> "KAASI_19", month |-> "Dec",       date |-> "2026-01-01" ] }

\* Heads of the rows of one tag: two COGS heads, two OpEx heads and a head
\* of the enumeration that is in neither list.
BaseHeads == << "FEED", "VACCINE", "RENT", "MISCELLANEOUS", "TP" >>

\* Heads of the one further row.
ProbeHeads == { "FEED", "RENT", "TP", "FURNITURE_FIXTURE", "PROFESSIONAL_FEE" }

\* Five expense rows of tag t, the k-th of cost 2^(k-1), and a sixth row of
\* tag u and head h that costs 2^5: every set of rows has its own sum.
QuietExpenses(t, u, h) ==
  [ k \in 1..(Len(BaseHeads) + 1) |->
      IF k <= Len(BaseHeads)
        THEN ExpenseRow([ expenseDate |-> t.date, month |-> t.month,
                          farm |-> t.farm, expenseCost |-> 2 ^ (k - 1),
                          head |-> BaseHeads[k] ])
        ELSE ExpenseRow([ expenseDate |-> u.date, month |-> u.month,
                          farm |-> u.farm, expenseCost |-> 2 ^ (k - 1),
                          head |-> h ]) ]

\* A sale of tag t and a sale of tag u.
QuietSales(t, u) ==
  << EggSaleRow([ saleDate |-> t.date, month |-> t.month, farm |-> t.farm,
                  amountReceived |-> 1 ]),
     EggSaleRow([ saleDate |-> u.date, month |-> u.month, farm |-> u.farm,
                  amountReceived |-> 2 ]) >>

\* Date ranges of January 2026.
JanuaryInputs ==
  { [ NoInput EXCEPT !.startDate = a, !.endDate = b, !.farm = f ] :
      a \in { Undefined, "2026-01-01" }, b \in { Undefined, "2026-01-31" },
      f \in { Undefined, "MATITAL" } }

\* The store after the creates that give the tables, with no call made yet.
InitQuiet ==
  /\ \E t \in QuietTags, u \in QuietTags, h \in ProbeHeads :
       /\ expense = QuietExpenses(t, u, h)
       /\ eggSale = QuietSales(t, u)
  /\ nextExpenseId = Len(expense) + 1
  /\ nextEggSaleId = Len(eggSale) + 1
  /\ writes = Len(expense) + Len(eggSale)
  /\ pc = "idle"
  /\ variant = "month"
  /\ input = NoInput
  /\ eggSales = NoAggregate
  /\ cogsExpenses = << >>
  /\ threw = ""
  /\ response = NoResponse
  /\ http = NoExchange
  /\ user = << >>
  /\ feedPurchase = << >>
  /\ feedCall = [ c \in Callers |-> NoFeedCall ]
  /\ records = EmptyRecords
  /\ proc = [ c \in Callers |-> NoProc ]

\* Calls of the service only: nothing writes to the store.
NextQuiet ==
  \/ \E in \in MonthVariantInputs : Call("month", in)
  \/ \E in \in JanuaryInputs : Call("range", in)
  \/ AggregateEggSales
  \/ GroupByCogs
  \/ GroupByOpEx
  \/ QueryThrows
  \/ Return

SpecQuiet == InitQuiet /\ [][NextQuiet]_vars

\* ---------------------------------------- requests to POST /expenses
NextRequests ==
  \E req \in Requests : createExpenseController(req)

SpecRequests == Init /\ [][NextRequests]_vars

\* ------------------------------------------------ requests to /auth
NextAuth ==
  \/ \E body \in SignupBodies : signupController(body)
  \/ \E body \in SigninBodies : signinController(body)

SpecAuth == Init /\ [][NextAuth]_vars

\* ------------------------- requests to /api/reports/income-statement
\* One registered user and a store at rest.
InitGateway ==
  /\ expense = QuietExpenses(CHOOSE t \in QuietTags : t.month = "Dec" /\ t.farm = "MATITAL",
                             CHOOSE t \in QuietTags : t.month = "Jan" /\ t.date = "2026-01-31",
                             "RENT")
  /\ eggSale = QuietSales(CHOOSE t \in QuietTags : t.month = "Dec" /\ t.farm = "MATITAL",
                          CHOOSE t \in QuietTags : t.month = "Jan" /\ t.date = "2026-01-31")
  /\ nextExpenseId = Len(expense) + 1
  /\ nextEggSaleId = Len(eggSale) + 1
  /\ writes = Len(expense) + Len(eggSale)
  /\ pc = "idle"
  /\ variant = "month"
  /\ input = NoInput
  /\ eggSales = NoAggregate
  /\ cogsExpenses = << >>
  /\ threw = ""
  /\ response = NoResponse
  /\ http = NoRequest
  /\ user = << [ id |-> 1, name |-> "Ali", email |-> "a@x.io",
                 password |-> Hash("pw1"), role |-> "user",
                 submitted |-> "a@x.io" ] >>
  /\ feedPurchase = << >>
  /\ feedCall = [ c \in Callers |-> NoFeedCall ]
  /\ records = EmptyRecords
  /\ proc = [ c \in Callers |-> NoProc ]

NextGateway ==
  \/ \E header \in Headers, query \in MonthVariantInputs : Receive(header, query)
  \/ \E lookup \in { "resolves", "rejects" } : authMiddleware(lookup)
  \/ getIncomeStatementController
  \/ AggregateEggSales
  \/ GroupByCogs
  \/ GroupByOpEx
  \/ QueryThrows
  \/ Respond

SpecGateway == InitGateway /\ [][NextGateway]_vars

\* --------------------------- head updates while the statement is made
\* Six December rows of one farm, the k-th of cost 2^(k-1), before any
\* update.
InitHeadUpdate ==
  /\ \E t \in { t \in QuietTags : t.month = "Dec" /\ t.farm = "MATITAL" } :
       /\ expense = QuietExpenses(t, t, "RENT")
       /\ eggSale = QuietSales(t, t)
  /\ nextExpenseId = Len(expense) + 1
  /\ nextEggSaleId = Len(eggSale) + 1
  /\ writes = 0
  /\ pc = "idle"
  /\ variant = "month"
  /\ input = NoInput
  /\ eggSales = NoAggregate
  /\ cogsExpenses = << >>
  /\ threw = ""
  /\ response = NoResponse
  /\ http = NoExchange
  /\ user = << >>
  /\ feedPurchase = << >>
  /\ feedCall = [ c \in Callers |-> NoFeedCall ]
  /\ records = EmptyRecords
  /\ proc = [ c \in Callers |-> NoProc ]

\* Calls of the service, and updates that change the head of a row.
NextHeadUpdate ==
  \/ \E id \in DOMAIN expense, h \in { "FEED", "RENT", "TP" } :
       updateExpenseService(id, [ NoExpensePatch EXCEPT !.head = h ])
  \/ \E in \in MonthVariantInputs : Call("month", in)
  \/ AggregateEggSales
  \/ GroupByCogs
  \/ GroupByOpEx
  \/ QueryThrows
  \/ Return

SpecHeadUpdate == InitHeadUpdate /\ [][NextHeadUpdate]_vars

\* ------------------------------------------- feed purchases, in turn
\* One caller: a call starts when the call before it has returned.
NextFeedInTurn ==
  \/ \E data \in FeedBodies : createFeedPurchaseRead(1, data)
  \/ createFeedPurchaseInsert(1)

SpecFeedInTurn == Init /\ [][NextFeedInTurn]_vars

\* --------------------------------------- feed purchases, overlapping
NextFeed ==
  \/ \E c \in Callers, data \in FeedBodies : createFeedPurchaseRead(c, data)
  \/ \E c \in Callers : createFeedPurchaseInsert(c)

SpecFeed == Init /\ [][NextFeed]_vars

\* ----------------------------------- feed purchases and their updates
NextFeedUpdate ==
  \/ \E data \in FeedBodies : createFeedPurchaseRead(1, data)
  \/ createFeedPurchaseInsert(1)
  \/ \E id \in DOMAIN feedPurchase, data \in FeedPatches :
       updateFeedPurchaseService(id, data)

SpecFeedUpdate == Init /\ [][NextFeedUpdate]_vars

\* -------------------------------- updates and deletes, overlapping
\* Two records of every type.
InitRecords ==
  /\ expense = [ i \in 1..2 |-> ExpenseRow(GoodBody) ]
  /\ eggSale = [ i \in 1..2 |->
                   EggSaleRow([ saleDate |-> GoodBody.expenseDate,
                                month |-> GoodBody.month, farm |-> GoodBody.farm,
                                amountReceived |-> 1 ]) ]
  /\ nextExpenseId = 3
  /\ nextEggSaleId = 3
  /\ writes = 0
  /\ pc = "idle"
  /\ variant = "month"
  /\ input = NoInput
  /\ eggSales = NoAggregate
  /\ cogsExpenses = << >>
  /\ threw = ""
  /\ response = NoResponse
  /\ http = NoExchange
  /\ user = << >>
  /\ feedPurchase = [ i \in 1..2 |->
                        [ id |-> i, date |-> NewDate(GoodBody.expenseDate),
                          farm |-> GoodBody.farm, debit |-> NullNum,
                          credit |-> Num(1), runningBalance |-> i ] ]
  /\ feedCall = [ c \in Callers |-> NoFeedCall ]
  /\ records = [ t \in DOMAIN EmptyRecords |->
                   [ i \in 1..2 |->
                       IF t = "salary" THEN [ salaryAmount |-> 1 ]
                       ELSE [ totalEggs |-> 1 ] ] ]
  /\ proc = [ c \in Callers |-> NoProc ]

\* Ids of requests: of the two records and of none.
RecordIds == 1..3

NextRecords ==
  \/ \E c \in Callers, op \in { "update", "delete" }, t \in RecordTypes,
         id \in RecordIds : FindRecord(c, op, t, id)
  \/ \E c \in Callers : WriteRecord(c)
  \/ \E c \in Callers : ReturnResult(c)

SpecRecords == InitRecords /\ [][NextRecords]_vars

\* ------------------------------- update and delete requests, in turn
NextAdmin ==
  \E req \in AdminRequests : updateDeleteController(req)

SpecAdmin == InitRecords /\ [][NextAdmin]_vars

\* ================================================================ claims
\* The call has returned a report.
Success == pc = "done" /\ response.statusCode = 200
Report == response.data

\* The filter as the request states it: the farm and the period the caller
\* asked for, on a row whose date column is dateCol.
FilterSelects(row, dateCol, v, in) ==
  /\ in.farm # Undefined => row.farm = in.farm
  /\ (v = "month" /\ in.month # Undefined) => row.month = in.month
  /\ (v = "range" /\ in.startDate # Undefined)
       => row[dateCol] >= NewDate(in.startDate)
  /\ (v = "range" /\ in.endDate # Undefined)
       => row[dateCol] <= NewDate(in.endDate)

SelectedSales == { i \in DOMAIN eggSale :
                     FilterSelects(eggSale[i], "saleDate", variant, input) }
SelectedExpenses == { i \in DOMAIN expense :
                        FilterSelects(expense[i], "expenseDate", variant, input) }

\* C1: every successful report has netIncome = totalRevenue - totalExpenses.
C1_NetIncome ==
  Success => Report.netIncome = Report.totalRevenue - Report.totalExpenses

\* A report with revenue and expenses, at a loss.
C1_Witness ==
  /\ Success
  /\ Report.totalRevenue > 0
  /\ Report.totalExpenses > Report.totalRevenue

\* C2: every successful report has
\* totalExpenses = cogs.total + operatingExpenses.total.
C2_TotalExpenses ==
  Success =>
    Report.totalExpenses = Report.cogs.total + Report.operatingExpenses.total

\* A report with expenses in both buckets.
C2_Witness ==
  Success /\ Report.cogs.total > 0 /\ Report.operatingExpenses.total > 0

\* C3: in every successful report cogs.total is the sum of the four COGS
\* subfields chicken, feed, medicine and vaccine.
C3_CogsTotal ==
  Success =>
    Report.cogs.total = Report.cogs.chicken + Report.cogs.feed
                          + Report.cogs.medicine + Report.cogs.vaccine

\* A report folded from two COGS groups.
C3_Witness ==
  Success /\ Len(cogsExpenses) = 2
    /\ Report.cogs.chicken > 0 /\ Report.cogs.feed > 0

\* C4: in every successful report operatingExpenses.total is the sum of the
\* twelve OpEx subfields.
C4_OpExTotal ==
  Success =>
    LET o == Report.operatingExpenses
    IN o.total = o.rent + o.utilities + o.salariesPayments + o.mess
                   + o.powerElectric + o.pol + o.packingMaterial
                   + o.repairMaintenance + o.officeExpenses
                   + o.meetingRefreshment + o.travellingLogistics
                   + o.miscellaneous

\* A report folded from two OpEx groups.
C4_Witness ==
  Success /\ Report.operatingExpenses.rent > 0
    /\ Report.operatingExpenses.miscellaneous > 0

\* The revenue query runs.
AggregateStep == pc = "aggregate" /\ pc' = "groupByCogs"

\* C5: in every successful report otherIncome is 0, totalRevenue is
\* grossRevenue + otherIncome, and grossRevenue is the sum the revenue query
\* returned (0 for none), which is the sum of amountReceived over the sale
\* rows the filter selects when the query runs.
C5_Revenue ==
  /\ [](Success =>
          /\ Report.otherIncome = 0
          /\ Report.totalRevenue = Report.grossRevenue + Report.otherIncome
          /\ Report.grossRevenue =
               IF eggSales._sum.amountReceived = << >> THEN 0
               ELSE eggSales._sum.amountReceived[1])
  /\ [][AggregateStep =>
          eggSales'._sum.amountReceived =
            IF SelectedSales = {} THEN << >>
            ELSE << SumOver(eggSale, SelectedSales, "amountReceived") >>]_vars

\* A farm filter that selects both sale rows of the store: the revenue is
\* the sum of the two.
C5_Witness ==
  /\ Success
  /\ input.farm # Undefined
  /\ DOMAIN eggSale = {1, 2}
  /\ Report.grossRevenue = eggSale[1].amountReceived + eggSale[2].amountReceived

\* C6: the note is "Profitable" exactly when netIncome >= 0 and "Loss"
\* otherwise.
C6_Notes ==
  Success =>
    /\ Report.notes = "Profitable" <=> Report.netIncome >= 0
    /\ Report.notes = "Loss" <=> Report.netIncome < 0

\* Break-even with money on both sides: netIncome = 0 is "Profitable".
C6_Witness ==
  /\ Success
  /\ Report.grossRevenue > 0
  /\ Report.netIncome = 0
  /\ Report.notes = "Profitable"

\* C7: when one of the three queries fails the call returns statusCode 500
\* with the fixed message and data null, whichever query it is.
C7_Failure ==
  threw # "" =>
    /\ pc = "done"
    /\ response.statusCode = 500
    /\ response.message = "Failed to generate income statement"
    /\ response.data = NullData

\* The last query fails after the first two returned data.
C7_Witness ==
  /\ threw = "groupByOpEx"
  /\ eggSales._sum.amountReceived # << >>
  /\ cogsExpenses # << >>
  /\ response.statusCode = 500

\* The call ran all three queries and returned.
Completed == pc = "done" /\ threw = ""

\* C8: when the filter selects no sale row and no expense row the call
\* returns 200 with every numeric field 0 and the note "Profitable".
C8_ZeroData ==
  (Completed /\ SelectedSales = {} /\ SelectedExpenses = {}) =>
    /\ response.statusCode = 200
    /\ Report.grossRevenue = 0
    /\ Report.otherIncome = 0
    /\ Report.totalRevenue = 0
    /\ Report.cogs = [ chicken |-> 0, feed |-> 0, medicine |-> 0,
                       vaccine |-> 0, total |-> 0 ]
    /\ Report.operatingExpenses =
         [ rent |-> 0, utilities |-> 0, salariesPayments |-> 0, mess |-> 0,
           powerElectric |-> 0, pol |-> 0, packingMaterial |-> 0,
           repairMaintenance |-> 0, officeExpenses |-> 0,
           meetingRefreshment |-> 0, travellingLogistics |-> 0,
           miscellaneous |-> 0, total |-> 0 ]
    /\ Report.totalExpenses = 0
    /\ Report.netIncome = 0
    /\ Report.notes = "Profitable"

\* Both tables hold rows and the filter selects none of them.
C8_Witness ==
  /\ Completed
  /\ DOMAIN eggSale # {}
  /\ DOMAIN expense # {}
  /\ SelectedSales = {}
  /\ SelectedExpenses = {}
  /\ response.statusCode = 200

\* The subfield of the report that is named after a known head.
SubfieldOf(h) ==
  CASE h = "CHICKEN" -> Report.cogs.chicken
    [] h = "FEED" -> Report.cogs.feed
    [] h = "MEDICINE" -> Report.cogs.medicine
    [] h = "VACCINE" -> Report.cogs.vaccine
    [] h = "RENT" -> Report.operatingExpenses.rent
    [] h = "UTILITIES" -> Report.operatingExpenses.utilities
    [] h = "SALARIES_PAYMENTS" -> Report.operatingExpenses.salariesPayments
    [] h = "MESS" -> Report.operatingExpenses.mess
    [] h = "POWER_ELECTRIC" -> Report.operatingExpenses.powerElectric
    [] h = "POL" -> Report.operatingExpenses.pol
    [] h = "PACKING_MATERIAL" -> Report.operatingExpenses.packingMaterial
    [] h = "REPAIR_MAINTENANCE" -> Report.operatingExpenses.repairMaintenance
    [] h = "OFFICE_EXPENSES" -> Report.operatingExpenses.officeExpenses
    [] h = "MEETING_REFRESHMENT" -> Report.operatingExpenses.meetingRefreshment
    [] h = "TRAVELLING_LOGISTICS" -> Report.operatingExpenses.travellingLogistics
    [] h = "MISCELLANEOUS" -> Report.operatingExpenses.miscellaneous

CogsHeadNames == { "CHICKEN", "FEED", "MEDICINE", "VACCINE" }
OpExHeadNames ==
  { "RENT", "UTILITIES", "SALARIES_PAYMENTS", "MESS", "POWER_ELECTRIC", "POL",
    "PACKING_MATERIAL", "REPAIR_MAINTENANCE", "OFFICE_EXPENSES",
    "MEETING_REFRESHMENT", "TRAVELLING_LOGISTICS", "MISCELLANEOUS" }

RowsOfHead(h) == { i \in DOMAIN expense : expense[i].head = h }

\* The store holds exactly one expense row per known head and no other row.
OneRowPerKnownHead ==
  /\ \A h \in CogsHeadNames \cup OpExHeadNames : Cardinality(RowsOfHead(h)) = 1
  /\ \A i \in DOMAIN expense : expense[i].head \in CogsHeadNames \cup OpExHeadNames

CostOfHead(h) == expense[CHOOSE i \in RowsOfHead(h) : TRUE].expenseCost

\* C9: on a store with exactly one expense row per known head, all selected
\* by the filter, each named subfield is the cost of its own head, cogs.total
\* is the sum of the four COGS costs and operatingExpenses.total the sum of
\* the twelve OpEx costs.
C9_Buckets ==
  (Success /\ OneRowPerKnownHead /\ SelectedExpenses = DOMAIN expense) =>
    /\ \A h \in CogsHeadNames \cup OpExHeadNames : SubfieldOf(h) = CostOfHead(h)
    /\ Report.cogs.total =
         SumOver(expense, { i \in DOMAIN expense :
                              expense[i].head \in CogsHeadNames }, "expenseCost")
    /\ Report.operatingExpenses.total =
         SumOver(expense, { i \in DOMAIN expense :
                              expense[i].head \in OpExHeadNames }, "expenseCost")

\* The sixteen rows, selected by a farm and month filter, in a report.
C9_Witness ==
  /\ Success
  /\ OneRowPerKnownHead
  /\ SelectedExpenses = DOMAIN expense
  /\ input.farm # Undefined
  /\ Report.cogs.total > 0
  /\ Report.operatingExpenses.total > 0

\* C10 (as claimed): every head an expense row carries is in exactly one of
\* the two buckets of the income statement.
C10_EveryHeadInOneBucket ==
  \A i \in DOMAIN expense :
    (expense[i].head \in Range(cogsHeads)) # (expense[i].head \in Range(opExHeads))

\* The expense rows the call's where object matches.
MatchedExpenses ==
  { i \in DOMAIN expense :
      MatchesWhere(expense[i], ExpenseWhereOf(variant, input)) }

\* The matched expense rows of head h.
MatchedOfHead(h) == { i \in MatchedExpenses : expense[i].head = h }

\* C11: an expense row whose head is in neither list contributes to no
\* field of the report: every subfield is the sum of the matched rows of its
\* own head, and cogs.total, operatingExpenses.total, totalExpenses and
\* netIncome are made of the matched rows of the sixteen listed heads alone,
\* whatever rows of other heads the store holds.
C11_Uncategorised ==
  Success =>
    LET cogsRows == { i \in MatchedExpenses : expense[i].head \in CogsHeadNames }
        opExRows == { i \in MatchedExpenses : expense[i].head \in OpExHeadNames }
    IN /\ \A h \in CogsHeadNames \cup OpExHeadNames :
            SubfieldOf(h) = SumOver(expense, MatchedOfHead(h), "expenseCost")
       /\ Report.cogs.total = SumOver(expense, cogsRows, "expenseCost")
       /\ Report.operatingExpenses.total = SumOver(expense, opExRows, "expenseCost")
       /\ Report.totalExpenses =
            SumOver(expense, cogsRows \cup opExRows, "expenseCost")
       /\ Report.netIncome =
            Report.totalRevenue
              - SumOver(expense, cogsRows \cup opExRows, "expenseCost")

\* The filter matches rows of TP and of FURNITURE_FIXTURE next to rows of
\* listed heads: totalExpenses is less than the sum of the matched rows.
C11_Witness ==
  /\ Success
  /\ MatchedOfHead("TP") # {}
  /\ MatchedOfHead("FURNITURE_FIXTURE") # {}
  /\ Report.totalExpenses > 0
  /\ Report.totalExpenses < SumOver(expense, MatchedExpenses, "expenseCost")

\* The result of a call with the present filters on the tables exp and
\* sale whose three queries succeed and return their groups in the order of
\* the enumeration.
ResultOn(exp, sale) ==
  Generated(IncomeStatement(
    variant, input,
    EggSaleAggregate(sale, SaleWhereOf(variant, input)),
    ExpenseGroupBy(exp, WithHeadIn(ExpenseWhereOf(variant, input), cogsHeads),
                   EXPENSE_HEADS),
    ExpenseGroupBy(exp, WithHeadIn(ExpenseWhereOf(variant, input), opExHeads),
                   EXPENSE_HEADS)))

\* The reference call on the present store.
ReferenceResult == ResultOn(expense, eggSale)

\* C12: on a store that does not change, every call with the same filters
\* returns the same result as the reference call with these filters: status,
\* message and every field of the report, in whatever order the store
\* returns the groups (and the same fixed result whenever a query fails).
C12_Repeatable ==
  pc = "done" =>
    response = IF threw = "" THEN ReferenceResult ELSE Failed

\* The store returned two COGS groups in the reverse order of the
\* reference call.
C12_Witness ==
  /\ Success
  /\ Len(cogsExpenses) = 2
  /\ cogsExpenses[1].head = "VACCINE"
  /\ cogsExpenses[2].head = "FEED"
  /\ Report.operatingExpenses.total > 0
  /\ response = ReferenceResult

\* A step of the call: the only steps that move its program counter.
CallStep == pc' # pc

\* C13: no step of getIncomeStatement, from the call to the return of a
\* report or of the failure result, changes a sale or expense row, adds one
\* or removes one.
C13_ReadOnly ==
  [][CallStep => (expense' = expense /\ eggSale' = eggSale
                    /\ nextExpenseId' = nextExpenseId
                    /\ nextEggSaleId' = nextEggSaleId)]_vars

\* A call has reported the revenue and the expenses of a store whose rows
\* are all still there.
C13_Witness ==
  /\ Success
  /\ Report.grossRevenue > 0
  /\ Report.totalExpenses > 0
  /\ Report.grossRevenue =
       SumOver(eggSale, DOMAIN eggSale, "amountReceived")
  /\ Len(expense) = MaxWrites - 1

\* The calendar day of an instant (instants are half-day ticks).
DayOf(d) == d \div 2

\* The farm the request names, if any.
OfFarm(row) == input.farm # Undefined => row.farm = input.farm

\* A date within the requested range, both days included.
WithinRange(d) ==
  /\ input.startDate # Undefined => DayOf(d) >= DayOf(NewDate(input.startDate))
  /\ input.endDate # Undefined => DayOf(d) <= DayOf(NewDate(input.endDate))

\* The expense rows of the sixteen listed heads.
ListedExpenses ==
  { i \in DOMAIN expense : expense[i].head \in CogsHeadNames \cup OpExHeadNames }

\* C14 (as claimed): a date-range report counts exactly the sale rows whose
\* saleDate and the expense rows whose expenseDate lie between startDate and
\* endDate, the whole of both days included (every record dated within
\* 2026-01-31 is counted for endDate 2026-01-31, none of 2026-02-01), an
\* absent bound restricting nothing.
C14_DateRange ==
  (Success /\ variant = "range") =>
    /\ Report.grossRevenue =
         SumOver(eggSale, { i \in DOMAIN eggSale :
                              OfFarm(eggSale[i]) /\ WithinRange(eggSale[i].saleDate) },
                 "amountReceived")
    /\ Report.totalExpenses =
         SumOver(expense, { i \in ListedExpenses :
                              OfFarm(expense[i])
                                /\ WithinRange(expense[i].expenseDate) },
                 "expenseCost")

\* C15: a month-token report counts exactly the sale rows and the expense
\* rows (of the listed heads) whose month is the token, letter for letter:
\* for "Dec" no row of month "dec" or "DEC" and no row without a month.
C15_MonthToken ==
  (Success /\ variant = "month" /\ input.month # Undefined) =>
    /\ Report.grossRevenue =
         SumOver(eggSale, { i \in DOMAIN eggSale :
                              OfFarm(eggSale[i]) /\ eggSale[i].month = input.month },
                 "amountReceived")
    /\ Report.totalExpenses =
         SumOver(expense, { i \in ListedExpenses :
                              OfFarm(expense[i]) /\ expense[i].month = input.month },
                 "expenseCost")

\* A "Dec" report on a store with a sale of month "Dec" and a sale of month
\* "dec", and expenses of month "Dec" next to one that has no month.
C15_Witness ==
  /\ Success
  /\ variant = "month"
  /\ input.month = "Dec"
  /\ eggSale[1].month = "Dec"
  /\ eggSale[2].month = "dec"
  /\ Report.grossRevenue = eggSale[1].amountReceived
  /\ \E i \in ListedExpenses : expense[i].month = "Dec"
  /\ \E i \in ListedExpenses : expense[i].month = "dec"
  /\ Report.totalExpenses > 0

\* A row of another farm than the requested one, or of another month than
\* the requested token, or dated on a day outside the requested range.
Outside(row, dateCol) ==
  \/ ~OfFarm(row)
  \/ input.month # Undefined /\ row.month # input.month
  \/ ~WithinRange(row[dateCol])

\* C16: the farm and the period restrict all three queries alike: the
\* result, field by field, is the one the call gives on the store without
\* the rows of another farm or outside the period, so none of them
\* contributes to the revenue, a COGS field or an OpEx field; and with no
\* farm and no period every sale row and every row of a listed head counts.
C16_SameRestriction ==
  Success =>
    /\ response =
         ResultOn(SelectSeq(expense, LAMBDA row : ~Outside(row, "expenseDate")),
                  SelectSeq(eggSale, LAMBDA row : ~Outside(row, "saleDate")))
    /\ input = NoInput =>
         /\ Report.grossRevenue =
              SumOver(eggSale, DOMAIN eggSale, "amountReceived")
         /\ Report.cogs.total =
              SumOver(expense, { i \in DOMAIN expense :
                                   expense[i].head \in CogsHeadNames },
                      "expenseCost")
         /\ Report.operatingExpenses.total =
              SumOver(expense, { i \in DOMAIN expense :
                                   expense[i].head \in OpExHeadNames },
                      "expenseCost")

\* A report for one farm and month on a store that holds a sale and a FEED
\* expense of the same month and another farm: revenue and feed are those of
\* the requested farm alone.
C16_Witness ==
  /\ Success
  /\ input.farm = "MATITAL"
  /\ input.month = "Dec"
  /\ eggSale[2].farm = "KAASI_19"
  /\ eggSale[2].month = "Dec"
  /\ expense[6].farm = "KAASI_19"
  /\ expense[6].head = "FEED"
  /\ Report.grossRevenue = eggSale[1].amountReceived
  /\ Report.cogs.feed = expense[1].expenseCost
  /\ Report.operatingExpenses.total = expense[3].expenseCost + expense[4].expenseCost

\* C17: the period label is "Month: <token>" when a month token is given;
\* otherwise "From <start> to <end>" when a start or an end date is given,
\* with "earliest" for a missing start and "latest" for a missing end;
\* otherwise "All time". (The label is the list of the pieces joined.)
C17_PeriodLabel ==
  Success =>
    Report.period =
      IF input.month # Undefined THEN << "Month: ", input.month >>
      ELSE IF input.startDate # Undefined \/ input.endDate # Undefined
        THEN << "From ",
                IF input.startDate # Undefined THEN input.startDate ELSE "earliest",
                " to ",
                IF input.endDate # Undefined THEN input.endDate ELSE "latest" >>
        ELSE << "All time" >>

\* A report for a range that has an end date and no start date.
C17_Witness ==
  /\ Success
  /\ input.startDate = Undefined
  /\ input.endDate = "2026-01-31"
  /\ Report.period = << "From ", "earliest", " to ", "2026-01-31" >>

\* The where objects of the call in progress.
CallWheres == { SaleWhereOf(variant, input), ExpenseWhereOf(variant, input) }

\* The where object carries a condition on the month.
HasMonthCondition(w) == "month" \in DOMAIN w /\ w.month # Undefined

\* The date filter the where object carries, if any.
DateConditionOf(w) ==
  IF "saleDate" \in DOMAIN w THEN w.saleDate
  ELSE IF "expenseDate" \in DOMAIN w THEN w.expenseDate
  ELSE [ gte |-> << >>, lte |-> << >> ]

HasDateCondition(w) ==
  DateConditionOf(w).gte # << >> \/ DateConditionOf(w).lte # << >>

CogsStep == pc = "groupByCogs" /\ pc' = "groupByOpEx"
OpExStep == pc = "groupByOpEx" /\ pc' = "done" /\ threw' = ""

\* The sale rows the call's where object matches.
MatchedSales ==
  { i \in DOMAIN eggSale :
      MatchesWhere(eggSale[i], SaleWhereOf(variant, input)) }

\* The sum of the group of head h among the groups a query returned, 0 when
\* it returned none for h.
GroupSumOf(groups, h) ==
  LET ks == { k \in DOMAIN groups : groups[k].head = h }
  IN IF ks = {} THEN 0
     ELSE groups[CHOOSE k \in ks : TRUE]._sum.expenseCost[1]

\* C19: with creates, updates and deletes interleaved anywhere between the
\* three queries, every report satisfies totalRevenue = grossRevenue +
\* otherIncome, totalExpenses = cogs.total + operatingExpenses.total and
\* netIncome = totalRevenue - totalExpenses, and each field is the aggregate
\* of the store as it is when its own query runs: the revenue at the first
\* query, the COGS fields at the second, the OpEx fields at the third.
C19_PointInTime ==
  /\ [](Success =>
          /\ Report.totalRevenue = Report.grossRevenue + Report.otherIncome
          /\ Report.totalExpenses =
               Report.cogs.total + Report.operatingExpenses.total
          /\ Report.netIncome = Report.totalRevenue - Report.totalExpenses
          /\ Report.grossRevenue =
               IF eggSales._sum.amountReceived = << >> THEN 0
               ELSE eggSales._sum.amountReceived[1]
          /\ \A h \in CogsHeadNames : SubfieldOf(h) = GroupSumOf(cogsExpenses, h))
  /\ [][AggregateStep =>
          eggSales'._sum.amountReceived =
            IF MatchedSales = {} THEN << >>
            ELSE << SumOver(eggSale, MatchedSales, "amountReceived") >>]_vars
  /\ [][CogsStep =>
          \A h \in CogsHeadNames :
            GroupSumOf(cogsExpenses', h) =
              SumOver(expense, MatchedOfHead(h), "expenseCost")]_vars
  /\ [][OpExStep =>
          \A h \in OpExHeadNames :
            SubfieldOf(h)' = SumOver(expense, MatchedOfHead(h), "expenseCost")]_vars

\* The only sale was deleted after the revenue query had counted it: the
\* report carries its amount and the store holds no sale.
C19_Witness ==
  /\ Success
  /\ DOMAIN eggSale = {}
  /\ Report.grossRevenue > 0
  /\ writes = MaxWrites

\* The last request to POST /expenses came from a user and its body fails
\* the validation.
RejectedBody == http.req.user /\ ~createExpenseSchema(http.req.body)

\* C20 (as claimed): a create-expense request whose body fails validation
\* is answered with status 400, and it creates no expense row.
C20_Validation400 ==
  /\ [](RejectedBody => http.res.statusCode = 400)
  /\ [][(http' # http /\ RejectedBody') => expense' = expense]_vars

\* A signup step whose body is valid and whose email, lower-cased and
\* trimmed, is the email of a user there is already.
DuplicateSignup ==
  /\ http'.req.route = "signup"
  /\ signupSchema(http'.req.body)
  /\ \E u \in DOMAIN user :
       user[u].email = toLowerCaseTrim(http'.req.body.email)

\* C21 (as claimed): a signup with an email that is already registered is
\* answered with status 409 and leaves the users as they are.
C21_DuplicateEmail409 ==
  [][DuplicateSignup => (http'.res.statusCode = 409 /\ user' = user)]_vars

\* The last request was a signin with the email string and the password of
\* a signup that succeeded.
SigninAsSignedUp ==
  /\ http.req.route = "signin"
  /\ \E u \in DOMAIN user :
       /\ user[u].submitted = http.req.body.email
       /\ user[u].password = Hash(http.req.body.password)

\* C30 (as claimed): after a signup that succeeded, a signin with the same
\* email string and password returns 200 with a token, for every valid
\* email, upper-case letters included.
C30_SignupSigninRoundTrip ==
  SigninAsSignedUp =>
    /\ http.res.statusCode = 200
    /\ "token" \in DOMAIN http.res.json

\* The request carries a bearer token that verifies and names a user there is.
ValidBearer(req) ==
  /\ req.header.scheme = "Bearer"
  /\ verifyToken(req.header.token) = ""
  /\ \E u \in DOMAIN user : Num(user[u].id) = req.header.token.payload.id

\* The request to the income statement has been answered without a valid
\* bearer token.
RejectedRequest ==
  /\ http.req.route = "/api/reports/income-statement"
  /\ http.req.stage = "done"
  /\ ~ValidBearer(http.req)

\* While the service runs, the request in hand has passed authMiddleware:
\* its token is valid and req.user is the user of the token.
ServiceOnlyAuthenticated ==
  pc # "idle" =>
    /\ http.req.stage = "service"
    /\ ValidBearer(http.req)
    /\ Num(http.req.user.id) = http.req.header.token.payload.id

CostIn(k, n) == (n \div (2 ^ (k - 1))) % 2 = 1

FeedFarms == { "MATITAL", "KAASI_19" }

\* Every summary of the farm reports credits minus debits as the balance.
BalanceIsLedger(farm) ==
  \A s \in getFeedPurchaseSummaryService(farm) :
    s.currentBalance = s.totalCredit - s.totalDebit

\* The records of the farm were created in the order of their dates, no
\* two on one date.
CreatedInDateOrder(farm) ==
  \A i, j \in OfFeedFarm(farm) :
    i < j => feedPurchase[i].date < feedPurchase[j].date

\* C24 (as claimed): after creates made one after another, in any order of
\* dates, the summary's currentBalance of a farm is the sum of the credits
\* minus the sum of the debits of the farm's records.
C24_BalanceAnyOrder ==
  \A farm \in FeedFarms :
    feedCall[1].pc = "idle" => BalanceIsLedger(farm)

\* C24 (amended): the same, for a farm whose records were created in
\* strictly increasing order of their dates.
C24_BalanceInDateOrder ==
  \A farm \in FeedFarms :
    (feedCall[1].pc = "idle" /\ CreatedInDateOrder(farm)) => BalanceIsLedger(farm)

\* Two records of a farm, the later-dated created second, with a debit and
\* a credit between them.
C24_Witness ==
  /\ feedCall[1].pc = "idle"
  /\ Cardinality(OfFeedFarm("MATITAL")) = 2
  /\ CreatedInDateOrder("MATITAL")
  /\ FeedSum(OfFeedFarm("MATITAL"), "debit") > 0
  /\ FeedSum(OfFeedFarm("MATITAL"), "credit") > 0

\* No call of createFeedPurchaseService is between its read and its insert.
NoFeedCallInFlight == \A c \in Callers : feedCall[c].pc = "idle"

InsertsOnWhatItRead(c) ==
  /\ feedCall[c].pc = "create"
  /\ feedCall'[c].pc = "idle"
  /\ FindFirstByDateDesc(feedCall[c].data.farm) =
       IF feedCall[c].lastRecord = 0 THEN {} ELSE { feedCall[c].lastRecord }

C26_UpdateIdempotent ==
  \A id \in DOMAIN feedPurchase, data \in FeedPatches :
    LET row == feedPurchase[id]
        once == UpdatedFeedRow(row, data)
    IN /\ (data.debit = row.debit /\ data.credit = row.credit)
            => once.runningBalance = row.runningBalance
       /\ UpdatedFeedRow(once, data) = once

\* Caller c starts an update or delete with an id that no record of the
\* type has.
StartsOnNoRecord(c) ==
  /\ proc[c].pc = "idle"
  /\ proc'[c].pc # "idle"
  /\ proc'[c].id \notin DOMAIN Table(proc'[c].type)

BothDeletedOne ==
  /\ \A c \in Callers : proc[c].pc = "returned" /\ proc[c].op = "delete"
  /\ proc[1].type = proc[2].type
  /\ proc[1].id = proc[2].id
  /\ \E c \in Callers : proc[c].result # NotFound

\* C29 (as claimed): of two deletes of one record, however their steps are
\* interleaved, one returns 200 and the other 404, for every record type.
C29_ConcurrentDelete ==
  BothDeletedOne =>
    { proc[c].result.statusCode : c \in Callers } = { 200, 404 }

\* The request of the step is an update or delete of an expense or an egg
\* production by no user or by a user who is not an admin.
NonAdminRequest ==
  /\ http'.req.route \in { "expense", "eggProduction" }
  /\ http'.req.user.id = 0 \/ http'.req.user.role # "admin"

\* C27 (as claimed): an update or delete of an expense or an egg production
\* by no user or by a non-admin user is answered 401 and changes no table.
C27_AdminOnly ==
  [][NonAdminRequest =>
       /\ http'.res.statusCode = 401
       /\ UNCHANGED << expense, records >>]_vars

====
